---- MODULE Spec2Model ----
(***************************************************************************)
(* SBDP (Simple Binary Dictionary Protocol): the wire codec of SBDP.h and  *)
(* the framing transport of SBDPSocket.h.                                  *)
(*                                                                         *)
(* Representation.  A byte is a number 0..255 and a buffer                 *)
(* (std::vector<uint8_t>, std::string) a sequence of bytes.  A fixed-width *)
(* unsigned integer (uint16_t, uint32_t, uint64_t; int64_t and double by   *)
(* their bit patterns) is the sequence of its base-256 digits, most        *)
(* significant first, so that all 64 bits are kept.  A C++ offset i names  *)
(* the element i+1 of the sequence.  size_t is 64 bits wide.               *)
(* The host is little-endian in Spec and SpecStream (hostLittleEndian).    *)
(***************************************************************************)
EXTENDS Integers, Sequences, FiniteSets, TLC

VARIABLES
    hostLittleEndian, \* byte order of the host the code runs on
    pc,               \* position of the codec caller
    msgData,          \* the Message handed to EncodeMessage
    vecMessage,       \* the buffer handed to DecodeMessage
    unPayloadLen,     \* DecodeMessage: declared payload length (4 digits)
    unOffset,         \* DecodeMessage: scan offset
    msgDecoded,       \* DecodeMessage: the Message under construction
    strError,         \* DecodeMessage: what() of the exception thrown, "" if none
    unReadEnd,        \* one past the highest buffer index DecodeMessage has read
    \* One connection: a sending Socket "snd" at one peer, a receiving Socket
    \* "rcv" at the other.
    stream,           \* the bytes written to the connection and not yet read
    m_bShutdown,      \* Socket::m_bShutdown of each Socket
    osShutdown,       \* ::shutdown() has been called on the handle of each Socket
    shutPc,           \* position of the thread that calls Shutdown() on each Socket
    bShutAtCall,      \* Shutdown() had returned on the Socket when its current call began
    sndPc,            \* position of the thread that calls SendMessage
    vecSend,          \* SendMessage: vecData, the encoded message
    unTotalSent,      \* bSendAll: bytes accepted so far
    sndCalls,         \* the Messages SendMessage was called with, in order
    sndResults,       \* how each SendMessage call ended
    rcvPc,            \* position of the thread that calls RecvMessage
    rcvStage,         \* RecvMessage: which RecvAll is running
    unTimeoutMs,      \* RecvMessage: its timeout
    unHeader,         \* RecvMessage: the header bytes
    rcvBuffer,        \* RecvAll: the bytes stored so far (unTotalReceived of them)
    unLength,         \* RecvAll: the bytes asked for
    rcvResults,       \* how each RecvMessage call ended
    wire,             \* bSendAll: the bytes its send() calls have accepted, in order
    taken,            \* RecvAll: the bytes its recv() calls have taken off the stream
    \* The clock of the readiness wait, in ticks of TickMs milliseconds.
    unWaited,         \* select(): how much of stTimeout the current call has used
    unSilent,         \* how long the receiver has been waiting since its last wait began
    unElapsed,        \* how long the receiver has waited since RecvAll was called
    \* A listening Socket "lst" and the thread that calls Accept() on it.
    accPc,            \* position of the thread that calls Accept
    accResult,        \* how the Accept call ended
    pending,          \* a peer's connection waits in the listen queue
    \* The application that builds a Message.
    vecInserted,      \* the keys in the order in which they were first assigned
    \* Socket objects and the handles of the operating system.
    bLive,            \* which Socket objects exist
    m_hSocket,        \* Socket::m_hSocket of each object
    unAcquired,       \* how many handles ::socket() and ::accept() have returned
    unCloses,         \* how often ::close() has been called on each handle
    strOp,            \* the last operation on a Socket: name, object, source, handle closed
    m_bShutdownOf,    \* Socket::m_bShutdown of each object
    osShutdownOf,     \* the handles ::shutdown() has been called on
    \* One Connect() call.
    conPc,            \* position of the thread that calls Connect
    bResolved,        \* getaddrinfo() succeeded
    vecOutcomes,      \* whether ::connect() to each candidate of the list succeeds
    unCurrent,        \* pstCurrent, as an index into the list
    bConnected,       \* Connect: bConnected
    vecTried,         \* the candidates ::connect() was called on, in order
    \* Two threads that call SendMessage on one Socket.
    thrPc,            \* position of each thread
    thrVec,           \* SendMessage: vecData of each thread
    thrSent,          \* bSendAll: unTotalSent of each thread
    \* The codec on a key of 2^16 bytes or more: the buffers themselves are
    \* not kept in the state, only what is observed of them.
    longPc,           \* position of the caller
    longKey,          \* the key: its length and the byte it is made of
    longSeen          \* what the encoding and its decode showed

linkVars == <<stream, m_bShutdown, osShutdown, shutPc, bShutAtCall, sndPc, vecSend,
              unTotalSent, sndCalls, sndResults, rcvPc, rcvStage, unTimeoutMs,
              unHeader, rcvBuffer, unLength, rcvResults, wire, taken,
              unWaited, unSilent, unElapsed, accPc, accResult, pending>>

lifeVars == <<bLive, m_hSocket, unAcquired, unCloses, strOp, m_bShutdownOf, osShutdownOf>>
connVars == <<conPc, bResolved, vecOutcomes, unCurrent, bConnected, vecTried>>
thrVars == <<thrPc, thrVec, thrSent>>

longVars == <<longPc, longKey, longSeen>>

streamVars == <<linkVars, vecInserted, lifeVars, connVars, thrVars, longVars>>

codecVars == <<hostLittleEndian, pc, msgData, vecMessage, unPayloadLen, unOffset,
               msgDecoded, strError, unReadEnd>>

-----------------------------------------------------------------------------
(* Bounds of the model *)

\* Number of entries of a Message the application builds.
MaxEntries == 2

\* Number of SendMessage calls and of RecvMessage calls on the connection.
MaxMessages == 2

\* Bytes the connection holds between the two peers.
MaxInFlight == 5

\* Milliseconds by which the clock of the timed model advances in one step.
TickMs == 500

\* Clock steps counted for one RecvAll; the count stays there afterwards.
MaxElapsed == 4

\* Socket objects of the program.
MaxSockets == 2

\* Handles the operating system hands out.
MaxHandles == 2

\* Candidate addresses getaddrinfo() returns.
MaxCandidates == 5

\* Entries of a payload written without the encoder.
MaxWireEntries == 3

\* Saturation point of NumValue: larger than every buffer length of the model.
Huge == 16777216

-----------------------------------------------------------------------------
(* SBDPTypedef.h *)

TYPE_INT64 == 1
TYPE_UINT64 == 2
TYPE_FLOAT64 == 3
TYPE_STRING == 4
TYPE_BINARY == 5

(* SBDPSocket.h *)
INVALID_SOCKET == -1

(* SBDP.h: field sizes *)
k_unHeaderSize == 4
k_unKeyLengthSize == 2
k_unInt64ValueSize == 8
k_unUInt64ValueSize == 8
k_unFloat64ValueSize == 8
k_unStringLengthSize == 4
k_unBinaryLengthSize == 4

-----------------------------------------------------------------------------
(* Sequences and numbers *)

Min(a, b) == IF a < b THEN a ELSE b
Max(a, b) == IF a > b THEN a ELSE b

Reverse(s) == [i \in 1..Len(s) |-> s[Len(s) + 1 - i]]

\* Variant of ToU16: a size that does not fit becomes the largest value.
ToU16_Saturated(n) == IF n >= 65536 THEN <<255, 255>> ELSE <<(n \div 256) % 256, n % 256>>

\* static_cast<uint16_t>(n), static_cast<uint32_t>(n) of a size n: the low
\* 16 or 32 bits, as digits.
ToU16(n) == <<(n \div 256) % 256, n % 256>>
ToU32(n) == <<(n \div 16777216) % 256, (n \div 65536) % 256, (n \div 256) % 256, n % 256>>

\* A size_t as its 8 digits, and static_cast<uint32_t> of it: the low 32 bits.
SizeDigits(n) == <<0, 0, 0, 0>> \o ToU32(n)
CastU32(d) == SubSeq(d, Len(d) - 3, Len(d))

\* The digits denote a number below 2^24.
Fits(d) == \A i \in 1..(Len(d) - 3) : d[i] = 0

RECURSIVE DigitsVal(_)
DigitsVal(d) == IF d = <<>> THEN 0
                ELSE DigitsVal(SubSeq(d, 1, Len(d) - 1)) * 256 + d[Len(d)]

\* The number the digits denote, saturated at Huge.  Every comparison of the
\* code is against a buffer length or an offset into the buffer, both below
\* Huge, so the saturated number compares as the true one does.
NumValue(d) == IF Fits(d) THEN DigitsVal(SubSeq(d, Max(1, Len(d) - 2), Len(d))) ELSE Huge

\* Variant of Plus: the sum taken in 32 bits, wrapping at 2^32.
Plus_Wrap32(n, d) ==
    IF Len(d) = 4 /\ d[1] = 255 /\ d[2] = 255 /\ d[3] = 255 /\ d[4] + n >= 256
    THEN d[4] + n - 256
    ELSE Min(Huge, n + NumValue(d))

\* n + d in size_t arithmetic (64 bits: no wrap for a 16- or 32-bit d).
Plus(n, d) == Min(Huge, n + NumValue(d))

-----------------------------------------------------------------------------
(* SBDPEndian.h *)

\* Variant of htons: x << 8 alone.
htons_ShiftOnly(x) == <<x[2], 0>>

\* (x << 8) | (x >> 8), truncated to 16 bits
htons(x) == <<x[2], x[1]>>

ntohs(x) == htons(x)

\* ((x & 0xFF) << 24) | ((x & 0xFF00) << 8) | ((x & 0xFF0000) >> 8) | ((x & 0xFF000000) >> 24)
htonl(x) == <<x[4], x[3], x[2], x[1]>>

ntohl(x) == htonl(x)

\* Variant of htonll: the two 32-bit halves exchanged, their bytes not reversed.
htonll_WordSwapOnly(x) == <<x[5], x[6], x[7], x[8], x[1], x[2], x[3], x[4]>>

htonll(x) == <<x[8], x[7], x[6], x[5], x[4], x[3], x[2], x[1]>>

ntohll(x) == htonll(x)

-----------------------------------------------------------------------------
(* Object representation *)

\* The bytes of an integer object in memory, lowest address first
\* (reinterpret_cast<const uint8_t*>(&tData)), and, being its own inverse,
\* the integer a memcpy of those bytes into an object yields.
ObjectBytes(x) == IF hostLittleEndian THEN Reverse(x) ELSE x

AppendBytes(vecBuffer, tData) == vecBuffer \o ObjectBytes(tData)

AppendVector(vecBuffer, vecData) == vecBuffer \o vecData

\* std::memcpy(&x, vecMessage.data() + unOffset, n)
MemcpyFrom(vec, off, n) == ObjectBytes(SubSeq(vec, off + 1, off + n))

-----------------------------------------------------------------------------
(* SBDPTypedef.h: SimpleValue and Message *)

\* A SimpleValue is [type, val]: the alternative the variant holds, named by
\* its type code, and its content: the 8 digits of the bit pattern of an
\* int64_t, uint64_t or float64_t, or the bytes of a string or binary.
Int64Value(bits) == [type |-> TYPE_INT64, val |-> bits]
UInt64Value(bits) == [type |-> TYPE_UINT64, val |-> bits]
Float64Value(bits) == [type |-> TYPE_FLOAT64, val |-> bits]
StringValue(s) == [type |-> TYPE_STRING, val |-> s]
BinaryValue(b) == [type |-> TYPE_BINARY, val |-> b]

\* The two's complement bit pattern of the int64_t n, for |n| < 2^24.
Int64Bits(n) == IF n >= 0 THEN <<0, 0, 0, 0>> \o ToU32(n)
                ELSE <<255, 255, 255, 255, 255>> \o SubSeq(ToU32(16777216 + n), 2, 4)

\* Variant of StrLess: the bytes compared as signed char.
StrLess_SignedChar(a, b) ==
    LET n == Min(Len(a), Len(b))
        diff == {i \in 1..n : a[i] # b[i]}
        sc(x) == IF x >= 128 THEN x - 256 ELSE x
    IN  IF diff = {} THEN Len(a) < Len(b)
        ELSE LET i == CHOOSE j \in diff : \A k \in diff : j <= k
             IN  sc(a[i]) < sc(b[i])

\* std::string operator<: the first differing byte decides, compared as
\* unsigned char; a proper prefix is less.
StrLess(a, b) ==
    LET n == Min(Len(a), Len(b))
        diff == {i \in 1..n : a[i] # b[i]}
    IN  IF diff = {} THEN Len(a) < Len(b)
        ELSE LET i == CHOOSE j \in diff : \A k \in diff : j <= k
             IN  a[i] < b[i]

\* A Message (std::map<std::string, SimpleValue>) is the sequence of its
\* [key, value] entries in the order the map iterates them.
EmptyMessage == <<>>

MapKeys(m) == {m[i].key : i \in 1..Len(m)}

\* Variant of MapAssign: the entry a key already has is kept, as
\* std::map::insert does.
MapAssign_KeepFirst(m, strKey, value) ==
    IF strKey \in MapKeys(m) THEN m
    ELSE LET n == Cardinality({i \in 1..Len(m) : StrLess(m[i].key, strKey)})
         IN  SubSeq(m, 1, n) \o <<[key |-> strKey, value |-> value]>>
                 \o SubSeq(m, n + 1, Len(m))

\* Variant of MapAssign: a new entry is put after the entries there are.
MapAssign_Append(m, strKey, value) ==
    IF strKey \in MapKeys(m)
    THEN [i \in 1..Len(m) |-> IF m[i].key = strKey
                              THEN [key |-> strKey, value |-> value] ELSE m[i]]
    ELSE Append(m, [key |-> strKey, value |-> value])

\* msg[strKey] = value: overwrite the entry of an existing key, else insert
\* the entry at its place in key order.
MapAssign(m, strKey, value) ==
    IF strKey \in MapKeys(m)
    THEN [i \in 1..Len(m) |-> IF m[i].key = strKey
                              THEN [key |-> strKey, value |-> value] ELSE m[i]]
    ELSE LET n == Cardinality({i \in 1..Len(m) : StrLess(m[i].key, strKey)})
         IN  SubSeq(m, 1, n) \o <<[key |-> strKey, value |-> value]>>
                 \o SubSeq(m, n + 1, Len(m))

-----------------------------------------------------------------------------
(* SBDP.h: EncodeMessage *)

\* One iteration of the loop over msgData: the bytes appended to vecPayload.
EncodeEntry(strKey, svValue) ==
    LET unKeyLen == ToU16(Len(strKey))
        unNetKeyLen == htons(unKeyLen)
        vecKey == AppendBytes(<<>>, unNetKeyLen) \o strKey
    IN  IF svValue.type = TYPE_INT64
        THEN AppendBytes(vecKey \o <<TYPE_INT64>>, htonll(svValue.val))
        ELSE IF svValue.type = TYPE_UINT64
        THEN AppendBytes(vecKey \o <<TYPE_UINT64>>, htonll(svValue.val))
        ELSE IF svValue.type = TYPE_FLOAT64
        THEN AppendBytes(vecKey \o <<TYPE_FLOAT64>>, htonll(svValue.val))
        ELSE IF svValue.type = TYPE_STRING
        THEN AppendBytes(vecKey \o <<TYPE_STRING>>, htonl(ToU32(Len(svValue.val))))
                 \o svValue.val
        ELSE IF svValue.type = TYPE_BINARY
        THEN AppendBytes(vecKey \o <<TYPE_BINARY>>, htonl(ToU32(Len(svValue.val))))
                 \o svValue.val
        ELSE vecKey

RECURSIVE EncodePayload(_, _)
EncodePayload(m, i) ==
    IF i > Len(m) THEN <<>>
    ELSE EncodeEntry(m[i].key, m[i].value) \o EncodePayload(m, i + 1)

\* Variant of EncodeHeader: the length written counts the header too.
EncodeHeader_TotalLength(vecPayload) ==
    AppendBytes(<<>>, htonl(ToU32(Len(vecPayload) + k_unHeaderSize)))

\* The header: the payload size as uint32_t, htonl, AppendBytes.
EncodeHeader(vecPayload) == AppendBytes(<<>>, htonl(ToU32(Len(vecPayload))))

EncodeMessage(m) ==
    LET vecPayload == EncodePayload(m, 1)
    IN  AppendVector(EncodeHeader(vecPayload), vecPayload)

-----------------------------------------------------------------------------
(* SBDP.h: DecodeMessage *)

\* The state of a decode: the exception thrown ("" if none), the scan
\* offset, the Message built so far, one past the highest index read.
Scan(err, off, m, rd) == [err |-> err, off |-> off, msg |-> m, rd |-> rd]

\* uint32_t unPayloadLen = ntohl(unNetPayloadLen)
DeclaredLen(vec) == ntohl(MemcpyFrom(vec, 0, k_unHeaderSize))

\* Variant of PayloadEnd: the declared end cut down to the end of the buffer
\* being decoded.
PayloadEnd_Clamped(unLen) == Min(Len(vecMessage), Plus(k_unHeaderSize, unLen))

\* k_unHeaderSize + unPayloadLen: the offset at which the declared payload ends
PayloadEnd(unLen) == Plus(k_unHeaderSize, unLen)

\* vecMessage.size() < k_unHeaderSize + unPayloadLen
IsIncomplete(vec, unLen) == Len(vec) < PayloadEnd(unLen)

\* Variant of IsOversized: bytes after the declared payload are let through.
IsOversized_Never(vec, unLen) == FALSE

\* vecMessage.size() > k_unHeaderSize + unPayloadLen
IsOversized(vec, unLen) == Len(vec) > PayloadEnd(unLen)

\* Variant of HeaderError: the check for a buffer longer than declared is missing.
HeaderError_NoOversized(vec) ==
    IF Len(vec) < k_unHeaderSize THEN "Message too short"
    ELSE IF IsIncomplete(vec, DeclaredLen(vec)) THEN "Incomplete message"
    ELSE ""

\* The checks made before the entry loop: the exception thrown, "" if none.
HeaderError(vec) ==
    IF Len(vec) < k_unHeaderSize THEN "Message too short"
    ELSE IF IsIncomplete(vec, DeclaredLen(vec)) THEN "Incomplete message"
    ELSE IF IsOversized(vec, DeclaredLen(vec)) THEN "Message too big"
    ELSE ""

\* Variant of DecodeInt64: the value is stored as copied, without ntohll.
DecodeInt64_NoSwap(vec, off, m, rd, strKey) ==
    IF off + k_unInt64ValueSize > Len(vec) THEN Scan("int64 read error", off, m, rd)
    ELSE LET snNetValue == MemcpyFrom(vec, off, k_unInt64ValueSize)
         IN  Scan("", off + k_unInt64ValueSize,
                  MapAssign(m, strKey, Int64Value(snNetValue)),
                  Max(rd, off + k_unInt64ValueSize))

DecodeInt64(vec, off, m, rd, strKey) ==
    IF off + k_unInt64ValueSize > Len(vec) THEN Scan("int64 read error", off, m, rd)
    ELSE LET snNetValue == MemcpyFrom(vec, off, k_unInt64ValueSize)
             snValue == ntohll(snNetValue)
         IN  Scan("", off + k_unInt64ValueSize,
                  MapAssign(m, strKey, Int64Value(snValue)),
                  Max(rd, off + k_unInt64ValueSize))

\* Variant of DecodeUInt64: the value is stored as the int64_t alternative.
DecodeUInt64_AsInt64(vec, off, m, rd, strKey) ==
    IF off + k_unUInt64ValueSize > Len(vec) THEN Scan("uint64 read error", off, m, rd)
    ELSE Scan("", off + k_unUInt64ValueSize,
              MapAssign(m, strKey, Int64Value(ntohll(MemcpyFrom(vec, off, k_unUInt64ValueSize)))),
              Max(rd, off + k_unUInt64ValueSize))

DecodeUInt64(vec, off, m, rd, strKey) ==
    IF off + k_unUInt64ValueSize > Len(vec) THEN Scan("uint64 read error", off, m, rd)
    ELSE LET unNetValue == MemcpyFrom(vec, off, k_unUInt64ValueSize)
             unValue == ntohll(unNetValue)
         IN  Scan("", off + k_unUInt64ValueSize,
                  MapAssign(m, strKey, UInt64Value(unValue)),
                  Max(rd, off + k_unUInt64ValueSize))

DecodeFloat64(vec, off, m, rd, strKey) ==
    IF off + k_unFloat64ValueSize > Len(vec) THEN Scan("float64_t read error", off, m, rd)
    ELSE LET unNetValue == MemcpyFrom(vec, off, k_unFloat64ValueSize)
             dbValue == ntohll(unNetValue)
         IN  Scan("", off + k_unFloat64ValueSize,
                  MapAssign(m, strKey, Float64Value(dbValue)),
                  Max(rd, off + k_unFloat64ValueSize))

\* Variant of DecodeString: short string data is reported with the message of
\* the length check.
DecodeString_WrongMessage(vec, off, m, rd, strKey) ==
    IF off + k_unStringLengthSize > Len(vec) THEN Scan("String length read error", off, m, rd)
    ELSE LET unStrLen == ntohl(MemcpyFrom(vec, off, k_unStringLengthSize))
             o == off + k_unStringLengthSize
         IN  IF Plus(o, unStrLen) > Len(vec)
             THEN Scan("String length read error", o, m, Max(rd, o))
             ELSE LET n == NumValue(unStrLen)
                  IN  Scan("", o + n,
                           MapAssign(m, strKey, StringValue(SubSeq(vec, o + 1, o + n))),
                           Max(rd, o + n))

DecodeString(vec, off, m, rd, strKey) ==
    IF off + k_unStringLengthSize > Len(vec) THEN Scan("String length read error", off, m, rd)
    ELSE LET unStrLen == ntohl(MemcpyFrom(vec, off, k_unStringLengthSize))
             o == off + k_unStringLengthSize
         IN  IF Plus(o, unStrLen) > Len(vec)
             THEN Scan("String data insufficient", o, m, Max(rd, o))
             ELSE LET n == NumValue(unStrLen)
                  IN  Scan("", o + n,
                           MapAssign(m, strKey, StringValue(SubSeq(vec, o + 1, o + n))),
                           Max(rd, o + n))

\* Variant of DecodeBinary: the test for "Binary data insufficient" is missing.
DecodeBinary_NoDataCheck(vec, off, m, rd, strKey) ==
    IF off + k_unBinaryLengthSize > Len(vec) THEN Scan("Binary length read error", off, m, rd)
    ELSE LET unBinLen == ntohl(MemcpyFrom(vec, off, k_unBinaryLengthSize))
             o == off + k_unBinaryLengthSize
             n == NumValue(unBinLen)
         IN  Scan("", o + n,
                  MapAssign(m, strKey,
                            BinaryValue(SubSeq(vec, o + 1, Min(o + n, Len(vec))))),
                  Max(rd, o + n))

DecodeBinary(vec, off, m, rd, strKey) ==
    IF off + k_unBinaryLengthSize > Len(vec) THEN Scan("Binary length read error", off, m, rd)
    ELSE LET unBinLen == ntohl(MemcpyFrom(vec, off, k_unBinaryLengthSize))
             o == off + k_unBinaryLengthSize
         IN  IF Plus(o, unBinLen) > Len(vec)
             THEN Scan("Binary data insufficient", o, m, Max(rd, o))
             ELSE LET n == NumValue(unBinLen)
                  IN  Scan("", o + n,
                           MapAssign(m, strKey, BinaryValue(SubSeq(vec, o + 1, o + n))),
                           Max(rd, o + n))

\* Variant of DecodeValue: an entry of unknown type is passed over.
DecodeValue_SkipUnknown(vec, off, m, rd, strKey, unTypeCode) ==
    IF unTypeCode = TYPE_INT64 THEN DecodeInt64(vec, off, m, rd, strKey)
    ELSE IF unTypeCode = TYPE_UINT64 THEN DecodeUInt64(vec, off, m, rd, strKey)
    ELSE IF unTypeCode = TYPE_FLOAT64 THEN DecodeFloat64(vec, off, m, rd, strKey)
    ELSE IF unTypeCode = TYPE_STRING THEN DecodeString(vec, off, m, rd, strKey)
    ELSE IF unTypeCode = TYPE_BINARY THEN DecodeBinary(vec, off, m, rd, strKey)
    ELSE Scan("", off, m, rd)

\* The chain of if (unTypeCode == ...) else ... throw "Unknown type code";
\* off is the offset after the type code.
DecodeValue(vec, off, m, rd, strKey, unTypeCode) ==
    IF unTypeCode = TYPE_INT64 THEN DecodeInt64(vec, off, m, rd, strKey)
    ELSE IF unTypeCode = TYPE_UINT64 THEN DecodeUInt64(vec, off, m, rd, strKey)
    ELSE IF unTypeCode = TYPE_FLOAT64 THEN DecodeFloat64(vec, off, m, rd, strKey)
    ELSE IF unTypeCode = TYPE_STRING THEN DecodeString(vec, off, m, rd, strKey)
    ELSE IF unTypeCode = TYPE_BINARY THEN DecodeBinary(vec, off, m, rd, strKey)
    ELSE Scan("Unknown type code", off, m, rd)

\* One iteration of the entry loop, from scan offset off.
DecodeEntry(vec, off, m, rd) ==
    IF off + k_unKeyLengthSize > Len(vec) THEN Scan("Key length read error", off, m, rd)
    ELSE LET unKeyLen == ntohs(MemcpyFrom(vec, off, k_unKeyLengthSize))
             o == off + k_unKeyLengthSize
         IN  IF Plus(o, unKeyLen) > Len(vec)
             THEN Scan("Key string region insufficient", o, m, Max(rd, o))
             ELSE LET n == NumValue(unKeyLen)
                      strKey == SubSeq(vec, o + 1, o + n)
                      t == o + n
                  IN  IF t >= Len(vec)
                      THEN Scan("Type code read error", t, m, Max(rd, t))
                      ELSE DecodeValue(vec, t + 1, m, Max(rd, t + 1), strKey, vec[t + 1])

\* while (unOffset < k_unHeaderSize + unPayloadLen)
LoopContinues(off, unLen) == off < PayloadEnd(unLen)

RECURSIVE DecodeLoop(_, _, _, _, _)
DecodeLoop(vec, unLen, off, m, rd) ==
    IF ~LoopContinues(off, unLen) THEN Scan("", off, m, rd)
    ELSE LET r == DecodeEntry(vec, off, m, rd)
         IN  IF r.err # "" THEN r ELSE DecodeLoop(vec, unLen, r.off, r.msg, r.rd)

\* The whole function: err # "" when it throws, else msg is what it returns.
DecodeMessage(vec) ==
    IF HeaderError(vec) # "" THEN Scan(HeaderError(vec), 0, EmptyMessage, 0)
    ELSE DecodeLoop(vec, DeclaredLen(vec), k_unHeaderSize, EmptyMessage, k_unHeaderSize)

-----------------------------------------------------------------------------
(* Inputs of the codec *)

\* Keys: "", "id", "name".
Keys == {<<>>, <<105, 100>>, <<110, 97, 109, 101>>}

\* Values of all five alternatives: 42; 2^63 + 1; a NaN with a payload;
\* "alice", ""; the bytes 00 FF.
Values ==
    { Int64Value(Int64Bits(42)),
      UInt64Value(<<128, 0, 0, 0, 0, 0, 0, 1>>),
      Float64Value(<<127, 248, 0, 0, 0, 0, 0, 1>>),
      StringValue(<<97, 108, 105, 99, 101>>), StringValue(<<>>),
      BinaryValue(<<0, 255>>) }

\* Bytes written over a byte of an encoded message or appended to it.
EditBytes == {0, 1, 4, 6, 255}

\* Headers declaring a payload of 2^32 - 1 and of 2^32 - 4 bytes.
HugeHeaders == {<<255, 255, 255, 255>>, <<255, 255, 255, 252>>}

\* A header declaring a payload of 21 bytes.
ScenarioHeader == <<0, 0, 0, 21>>

-----------------------------------------------------------------------------
(* The codec and its caller *)

CodecInit ==
    /\ hostLittleEndian = TRUE
    /\ pc = "build"
    /\ msgData = EmptyMessage
    /\ vecMessage = <<>>
    /\ unPayloadLen = <<0, 0, 0, 0>>
    /\ unOffset = 0
    /\ msgDecoded = EmptyMessage
    /\ strError = ""
    /\ unReadEnd = 0

decodeVars == <<unPayloadLen, unOffset, msgDecoded, strError, unReadEnd>>

\* The application builds the Message: msgData[strKey] = svValue.
Insert(strKey, svValue) ==
    /\ pc = "build"
    /\ strKey \in MapKeys(msgData) \/ Len(msgData) < MaxEntries
    /\ msgData' = MapAssign(msgData, strKey, svValue)
    /\ UNCHANGED <<streamVars, hostLittleEndian, pc, vecMessage, decodeVars>>

\* vecData = EncodeMessage(msgData)
Encode ==
    /\ pc = "build"
    /\ vecMessage' = EncodeMessage(msgData)
    /\ pc' = "encoded"
    /\ UNCHANGED <<streamVars, hostLittleEndian, msgData, decodeVars>>

\* The buffer reaches the decoder cut to its first k bytes.
Truncate(k) ==
    /\ pc = "encoded"
    /\ k < Len(vecMessage)
    /\ vecMessage' = SubSeq(vecMessage, 1, k)
    /\ pc' = "edited"
    /\ UNCHANGED <<streamVars, hostLittleEndian, msgData, decodeVars>>

\* The buffer reaches the decoder with one more byte after it.
AppendByte(b) ==
    /\ pc = "encoded"
    /\ vecMessage' = vecMessage \o <<b>>
    /\ pc' = "edited"
    /\ UNCHANGED <<streamVars, hostLittleEndian, msgData, decodeVars>>

\* The buffer reaches the decoder with a second encoded message after it.
AppendEncoded(m) ==
    /\ pc = "encoded"
    /\ vecMessage' = vecMessage \o EncodeMessage(m)
    /\ pc' = "edited"
    /\ UNCHANGED <<streamVars, hostLittleEndian, msgData, decodeVars>>

\* The buffer reaches the decoder with the byte at offset i replaced by b.
Overwrite(i, b) ==
    /\ pc = "encoded"
    /\ i < Len(vecMessage)
    /\ vecMessage[i + 1] # b
    /\ vecMessage' = [vecMessage EXCEPT ![i + 1] = b]
    /\ pc' = "edited"
    /\ UNCHANGED <<streamVars, hostLittleEndian, msgData, decodeVars>>

\* The buffer reaches the decoder with its 4 header bytes replaced by h.
SetHeader(h) ==
    /\ pc = "encoded"
    /\ vecMessage' = h \o SubSeq(vecMessage, k_unHeaderSize + 1, Len(vecMessage))
    /\ pc' = "edited"
    /\ UNCHANGED <<streamVars, hostLittleEndian, msgData, decodeVars>>

\* DecodeMessage(vecMessage), up to the entry loop.
DecodeBegin ==
    /\ pc \in {"encoded", "edited"}
    /\ msgDecoded' = EmptyMessage
    /\ strError' = HeaderError(vecMessage)
    /\ IF Len(vecMessage) < k_unHeaderSize
       THEN UNCHANGED <<unPayloadLen, unOffset, unReadEnd>>
       ELSE /\ unPayloadLen' = DeclaredLen(vecMessage)
            /\ unOffset' = k_unHeaderSize
            /\ unReadEnd' = k_unHeaderSize
    /\ pc' = IF strError' = "" THEN "scan" ELSE "thrown"
    /\ UNCHANGED <<streamVars, hostLittleEndian, msgData, vecMessage>>

\* One iteration of the entry loop.
DecodeStep ==
    /\ pc = "scan"
    /\ LoopContinues(unOffset, unPayloadLen)
    /\ LET r == DecodeEntry(vecMessage, unOffset, msgDecoded, unReadEnd)
       IN  /\ unOffset' = r.off
           /\ msgDecoded' = r.msg
           /\ unReadEnd' = r.rd
           /\ strError' = r.err
           /\ pc' = IF r.err = "" THEN "scan" ELSE "thrown"
    /\ UNCHANGED <<streamVars, hostLittleEndian, msgData, vecMessage, unPayloadLen>>

\* The loop ends: return msgDecoded.
DecodeReturn ==
    /\ pc = "scan"
    /\ ~LoopContinues(unOffset, unPayloadLen)
    /\ pc' = "returned"
    /\ UNCHANGED <<streamVars, hostLittleEndian, msgData, vecMessage, decodeVars>>

CodecNext ==
    \/ \E strKey \in Keys, svValue \in Values : Insert(strKey, svValue)
    \/ Encode
    \/ \E k \in 0..Len(vecMessage) : Truncate(k)
    \/ \E b \in EditBytes : AppendByte(b)
    \/ \E m \in {EmptyMessage, msgData} : AppendEncoded(m)
    \/ \E i \in 0..Len(vecMessage), b \in EditBytes : Overwrite(i, b)
    \/ \E h \in HugeHeaders \cup {ScenarioHeader} : SetHeader(h)
    \/ DecodeBegin
    \/ DecodeStep
    \/ DecodeReturn

vars == <<codecVars, streamVars>>

\* The two ends of one connection, and a listening Socket.
Endpoints == {"snd", "rcv"}
Sockets == Endpoints \cup {"lst"}

\* The Socket objects, the handles and the two sending threads.
Objects == 1..MaxSockets
Handles == 1..MaxHandles
Threads == {1, 2}

\* No connection is in use, no Socket object exists and no call is running.
StreamIdle ==
    /\ vecInserted = <<>>
    /\ bLive = [o \in Objects |-> FALSE]
    /\ m_hSocket = [o \in Objects |-> INVALID_SOCKET]
    /\ unAcquired = 0
    /\ unCloses = [h \in Handles |-> 0]
    /\ strOp = <<"none", 0, 0, INVALID_SOCKET>>
    /\ m_bShutdownOf = [o \in Objects |-> FALSE]
    /\ osShutdownOf = {}
    /\ conPc = "idle"
    /\ bResolved = FALSE
    /\ vecOutcomes = <<>>
    /\ unCurrent = 0
    /\ bConnected = FALSE
    /\ vecTried = <<>>
    /\ thrPc = [t \in Threads |-> "idle"]
    /\ thrVec = [t \in Threads |-> <<>>]
    /\ thrSent = [t \in Threads |-> 0]
    /\ longPc = "build"
    /\ longKey = [len |-> 0, byte |-> 0, value |-> StringValue(<<>>)]
    /\ longSeen = [header |-> <<>>, keyLen |-> <<>>, keyWhole |-> FALSE, size |-> 0,
                    scan |-> Scan("", 0, EmptyMessage, 0)]
    /\ stream = <<>>
    /\ m_bShutdown = [e \in Sockets |-> FALSE]
    /\ osShutdown = [e \in Sockets |-> FALSE]
    /\ shutPc = [e \in Sockets |-> "none"]
    /\ bShutAtCall = [e \in Sockets |-> FALSE]
    /\ sndPc = "idle"
    /\ vecSend = <<>>
    /\ unTotalSent = 0
    /\ sndCalls = <<>>
    /\ sndResults = <<>>
    /\ rcvPc = "idle"
    /\ rcvStage = "header"
    /\ unTimeoutMs = 0
    /\ unHeader = <<>>
    /\ rcvBuffer = <<>>
    /\ unLength = 0
    /\ rcvResults = <<>>
    /\ wire = <<>>
    /\ taken = <<>>
    /\ unWaited = 0
    /\ unSilent = 0
    /\ unElapsed = 0
    /\ accPc = "idle"
    /\ accResult = ""
    /\ pending = FALSE

Init == CodecInit /\ StreamIdle

Spec == Init /\ [][CodecNext]_vars

\* The checks decode_message, the earlier decoder kept in SBDP.h, makes before
\* its entry loop: the exception thrown, "" if none.
decode_message_header(message) ==
    IF Len(message) < 4 THEN "Message too short"
    ELSE IF Len(message) < Plus(4, DeclaredLen(message)) THEN "Incomplete message"
    ELSE ""

\* decode_message(message) up to its entry loop.  The loop makes the tests and
\* the reads of the loop of DecodeMessage, in the same order.
decode_message ==
    /\ pc \in {"encoded", "edited"}
    /\ msgDecoded' = EmptyMessage
    /\ strError' = decode_message_header(vecMessage)
    /\ IF Len(vecMessage) < 4
       THEN UNCHANGED <<unPayloadLen, unOffset, unReadEnd>>
       ELSE /\ unPayloadLen' = DeclaredLen(vecMessage)
            /\ unOffset' = 4
            /\ unReadEnd' = 4
    /\ pc' = IF strError' = "" THEN "scan" ELSE "thrown"
    /\ UNCHANGED <<streamVars, hostLittleEndian, msgData, vecMessage>>

\* The buffers of Spec, given to either decoder.
BothNext == CodecNext \/ decode_message

SpecBoth == Init /\ [][BothNext]_vars

-----------------------------------------------------------------------------
(* The order of the entries: the application assigns keys in any order,    *)
(* the Message is encoded, the entries of the encoding may reach the       *)
(* decoder in another order, and the buffer is decoded.                    *)

\* Keys: "", "B", "a", "ab", "b", and the bytes 80 00 and FF.
OrderKeys == {<<>>, <<66>>, <<97>>, <<97, 98>>, <<98>>, <<128, 0>>, <<255>>}

OrderValues == {Int64Value(Int64Bits(42)), StringValue(<<97>>)}

\* msgData[strKey] = svValue, the order of the first assignments kept.
InsertLogged(strKey, svValue) ==
    /\ pc = "build"
    /\ strKey \in MapKeys(msgData) \/ Len(msgData) < MaxEntries
    /\ msgData' = MapAssign(msgData, strKey, svValue)
    /\ vecInserted' = IF strKey \in MapKeys(msgData) THEN vecInserted
                      ELSE Append(vecInserted, strKey)
    /\ UNCHANGED <<linkVars, lifeVars, connVars, thrVars, longVars, hostLittleEndian,
                   pc, vecMessage, decodeVars>>

\* The orders in which n entries can stand.
EntryOrders(n) == {f \in [1..n -> 1..n] : \A i, j \in 1..n : f[i] = f[j] => i = j}

\* The encoding of m with its entries in the order f.
PermutedMessage(m, f) ==
    LET vecPayload == EncodePayload([i \in 1..Len(m) |-> m[f[i]]], 1)
    IN  AppendVector(EncodeHeader(vecPayload), vecPayload)

\* The buffer reaches the decoder with its entries in the order f.
Permute(f) ==
    /\ pc = "encoded"
    /\ PermutedMessage(msgData, f) # vecMessage
    /\ vecMessage' = PermutedMessage(msgData, f)
    /\ pc' = "edited"
    /\ UNCHANGED <<streamVars, hostLittleEndian, msgData, decodeVars>>

OrderNext ==
    \/ \E strKey \in OrderKeys, svValue \in OrderValues : InsertLogged(strKey, svValue)
    \/ Encode
    \/ \E f \in EntryOrders(Len(msgData)) : Permute(f)
    \/ DecodeBegin
    \/ DecodeStep
    \/ DecodeReturn

SpecOrder == Init /\ [][OrderNext]_vars

-----------------------------------------------------------------------------------------------------------------------------------------------------
(* The life of Socket objects: construction, Create, Accept, moves, Close  *)
(* and destruction. A handle is named by the rank of its acquisition, so   *)
(* two acquisitions are never the same handle.                             *)

lifeIdle == <<codecVars, linkVars, vecInserted, connVars, thrVars, longVars>>

\* Variant of ClosedHandle: Close() without its last assignment.
ClosedHandle_Kept(h) == h

\* Close(): the value of m_hSocket once ::close(m_hSocket) has been called
ClosedHandle(h) == INVALID_SOCKET

\* Variant of MovedFrom: a move that leaves the handle in the source too.
MovedFrom_Kept(h) == h

\* The moves: the value left in other.m_hSocket
MovedFrom(h) == INVALID_SOCKET

\* ::close(h)
OsClose(cl, h) == [cl EXCEPT ![h] = @ + 1]

\* Close() on a Socket whose m_hSocket is h: the handle it holds afterwards
\* and the ::close calls made so far.
CloseOf(h, cl) ==
    IF h # INVALID_SOCKET
    THEN [handle |-> ClosedHandle(h), closes |-> OsClose(cl, h)]
    ELSE [handle |-> h, closes |-> cl]

\* Socket(): a Socket object comes to life without a handle.
Construct(o) ==
    /\ ~bLive[o]
    /\ bLive' = [bLive EXCEPT ![o] = TRUE]
    /\ m_hSocket' = [m_hSocket EXCEPT ![o] = INVALID_SOCKET]
    /\ m_bShutdownOf' = [m_bShutdownOf EXCEPT ![o] = FALSE]
    /\ strOp' = <<"Socket", o, o, INVALID_SOCKET>>
    /\ UNCHANGED <<lifeIdle, unAcquired, unCloses, osShutdownOf>>

\* Socket(Socket&& other): only m_hSocket is in the initialiser list, so
\* m_bShutdown is default-initialised: false where std::atomic's default
\* constructor value-initialises (C++20), else indeterminate, bInit being
\* what a load of it then gives.
MoveConstruct(o, other, bInit) ==
    /\ ~bLive[o] /\ bLive[other]
    /\ m_bShutdownOf' = [m_bShutdownOf EXCEPT ![o] = bInit]
    /\ bLive' = [bLive EXCEPT ![o] = TRUE]
    /\ m_hSocket' = [m_hSocket EXCEPT ![o] = m_hSocket[other],
                                      ![other] = MovedFrom(m_hSocket[other])]
    /\ strOp' = <<"MoveConstruct", o, other, INVALID_SOCKET>>
    /\ UNCHANGED <<lifeIdle, unAcquired, unCloses, osShutdownOf>>

\* operator=(Socket&& other), other being any live Socket, this one included
MoveAssign(o, other) ==
    /\ bLive[o] /\ bLive[other]
    /\ IF o # other
       THEN LET c == CloseOf(m_hSocket[o], unCloses)
            IN  /\ unCloses' = c.closes
                /\ m_hSocket' = [m_hSocket EXCEPT ![o] = m_hSocket[other],
                                                  ![other] = MovedFrom(m_hSocket[other])]
                /\ strOp' = <<"MoveAssign", o, other, m_hSocket[o]>>
       ELSE /\ strOp' = <<"MoveAssign", o, other, INVALID_SOCKET>>
            /\ UNCHANGED <<m_hSocket, unCloses>>
    /\ UNCHANGED <<lifeIdle, bLive, unAcquired, m_bShutdownOf, osShutdownOf>>

\* Create(): m_hSocket = ::socket(...), whatever m_hSocket held; bOk is
\* whether the OS gave a handle.
Create(o, bOk) ==
    /\ bLive[o]
    /\ IF bOk
       THEN /\ unAcquired < MaxHandles
            /\ unAcquired' = unAcquired + 1
            /\ m_hSocket' = [m_hSocket EXCEPT ![o] = unAcquired + 1]
       ELSE /\ m_hSocket' = [m_hSocket EXCEPT ![o] = INVALID_SOCKET]
            /\ UNCHANGED unAcquired
    /\ strOp' = <<"Create", o, o, INVALID_SOCKET>>
    /\ UNCHANGED <<lifeIdle, bLive, unCloses, m_bShutdownOf, osShutdownOf>>

\* Accept() on the Socket lst: the Socket returned is o and holds the
\* handle ::accept gave; when ::accept fails the call throws and the local
\* Socket, which holds no handle, is destroyed. The Socket returned is
\* the local cClientSocket itself, built by Socket(), or is move-constructed
\* from it: bInit is what a load of its m_bShutdown gives, false in the
\* first case.
AcceptSocket(lst, o, bOk, bInit) ==
    /\ bLive[lst] /\ ~bLive[o]
    /\ IF bOk
       THEN /\ unAcquired < MaxHandles
            /\ unAcquired' = unAcquired + 1
            /\ bLive' = [bLive EXCEPT ![o] = TRUE]
            /\ m_hSocket' = [m_hSocket EXCEPT ![o] = unAcquired + 1]
            /\ m_bShutdownOf' = [m_bShutdownOf EXCEPT ![o] = bInit]
       ELSE /\ bInit = FALSE
            /\ UNCHANGED <<unAcquired, bLive, m_hSocket, m_bShutdownOf>>
    /\ unCloses' = CloseOf(INVALID_SOCKET, unCloses).closes
    /\ strOp' = <<"Accept", lst, o, INVALID_SOCKET>>
    /\ UNCHANGED <<lifeIdle, osShutdownOf>>

\* Close()
Close(o) ==
    /\ bLive[o]
    /\ LET c == CloseOf(m_hSocket[o], unCloses)
       IN  /\ m_hSocket' = [m_hSocket EXCEPT ![o] = c.handle]
           /\ unCloses' = c.closes
    /\ strOp' = <<"Close", o, o, m_hSocket[o]>>
    /\ UNCHANGED <<lifeIdle, bLive, unAcquired, m_bShutdownOf, osShutdownOf>>

\* ~Socket(): Close(), and the object is no more (its fields are given the
\* values of an object not yet built).
Destroy(o) ==
    /\ bLive[o]
    /\ LET c == CloseOf(m_hSocket[o], unCloses)
       IN  /\ m_hSocket' = [m_hSocket EXCEPT ![o] = c.handle]
           /\ unCloses' = c.closes
    /\ bLive' = [bLive EXCEPT ![o] = FALSE]
    /\ m_bShutdownOf' = [m_bShutdownOf EXCEPT ![o] = FALSE]
    /\ strOp' = <<"Destroy", o, o, m_hSocket[o]>>
    /\ UNCHANGED <<lifeIdle, unAcquired, osShutdownOf>>

LifeNext ==
    \/ \E o \in Objects : Construct(o)
    \/ \E o, other \in Objects, bInit \in BOOLEAN : MoveConstruct(o, other, bInit)
    \/ \E o, other \in Objects : MoveAssign(o, other)
    \/ \E o \in Objects, bOk \in BOOLEAN : Create(o, bOk)
    \/ \E lst, o \in Objects, bOk, bInit \in BOOLEAN : AcceptSocket(lst, o, bOk, bInit)
    \/ \E o \in Objects : Close(o)
    \/ \E o \in Objects : Destroy(o)

SpecLife == Init /\ [][LifeNext]_vars

\* Shutdown() on the Socket o
Shutdown(o) ==
    /\ bLive[o]
    /\ IF m_hSocket[o] # INVALID_SOCKET
       THEN /\ osShutdownOf' = osShutdownOf \cup {m_hSocket[o]}
            /\ m_bShutdownOf' = [m_bShutdownOf EXCEPT ![o] = TRUE]
       ELSE UNCHANGED <<m_bShutdownOf, osShutdownOf>>
    /\ strOp' = <<"Shutdown", o, o, INVALID_SOCKET>>
    /\ UNCHANGED <<lifeIdle, bLive, m_hSocket, unAcquired, unCloses>>

\* SendAll or RecvAll of one byte or more on the Socket o, which holds a
\* handle: the load of m_bShutdown in the first iteration of bSendAll,
\* bRecvAll or bRecvAllWithTimeout throws operation_canceled, or the call
\* goes on to its send() or recv().
Transfer(o, strCall) ==
    /\ bLive[o]
    /\ m_hSocket[o] # INVALID_SOCKET
    /\ strOp' = <<strCall, o, o,
                  IF m_bShutdownOf[o] THEN "operation_canceled" ELSE "io">>
    /\ UNCHANGED <<lifeIdle, bLive, m_hSocket, unAcquired, unCloses, m_bShutdownOf,
                   osShutdownOf>>

FlagNext ==
    \/ LifeNext
    \/ \E o \in Objects : Shutdown(o)
    \/ \E o \in Objects, strCall \in {"SendAll", "RecvAll"} : Transfer(o, strCall)

SpecFlag == Init /\ [][FlagNext]_vars

-----------------------------------------------------------------------------
(* Connect(strHost, unPort): getaddrinfo gives a list of candidate         *)
(* addresses, or fails; ::connect on the i-th candidate succeeds when      *)
(* vecOutcomes[i] is TRUE.                                                 *)

connIdle == <<codecVars, linkVars, vecInserted, lifeVars, thrVars, longVars>>

\* What getaddrinfo can give: from 1 to MaxCandidates addresses.
CandidateLists ==
    UNION {[1..n -> BOOLEAN] : n \in 1..MaxCandidates}

\* Variant of LoopBreaks: the loop goes on after a ::connect that succeeded.
LoopBreaks_Never(bOk) == FALSE

\* if (::connect(...) != SOCKET_ERROR) { bConnected = true; break; }
LoopBreaks(bOk) == bOk

\* Connect() up to the loop: getaddrinfo fails and the call returns false,
\* or it gives the list lst and pstCurrent is its first element.
ConnectCall(bOk, lst) ==
    /\ conPc = "idle"
    /\ bResolved' = bOk
    /\ vecOutcomes' = IF bOk THEN lst ELSE <<>>
    /\ IF bOk THEN lst # <<>> ELSE lst = <<>>
    /\ bConnected' = FALSE
    /\ vecTried' = <<>>
    /\ unCurrent' = 1
    /\ conPc' = IF bOk THEN "loop" ELSE "returned"
    /\ UNCHANGED connIdle

\* One iteration of the for loop: ::connect on pstCurrent.
ConnectAttempt ==
    /\ conPc = "loop"
    /\ unCurrent <= Len(vecOutcomes)
    /\ vecTried' = Append(vecTried, unCurrent)
    /\ bConnected' = (bConnected \/ vecOutcomes[unCurrent])
    /\ IF LoopBreaks(vecOutcomes[unCurrent])
       THEN /\ conPc' = "free"
            /\ UNCHANGED unCurrent
       ELSE /\ unCurrent' = unCurrent + 1
            /\ UNCHANGED conPc
    /\ UNCHANGED <<connIdle, bResolved, vecOutcomes>>

\* pstCurrent == nullptr, or the break: freeaddrinfo; return bConnected.
ConnectReturn ==
    /\ \/ conPc = "loop" /\ unCurrent > Len(vecOutcomes)
       \/ conPc = "free"
    /\ conPc' = "returned"
    /\ UNCHANGED <<connIdle, bResolved, vecOutcomes, unCurrent, bConnected, vecTried>>

ConnNext ==
    \/ \E bOk \in BOOLEAN, lst \in CandidateLists \cup {<<>>} : ConnectCall(bOk, lst)
    \/ ConnectAttempt
    \/ ConnectReturn

SpecConn == Init /\ [][ConnNext]_vars

-----------------------------------------------------------------------------
(* The decoder on a payload that no encoder wrote: any list of up to       *)
(* MaxWireEntries well-formed entries, the same key more than once         *)
(* included, under a header that counts them.                              *)

DupKeys == {<<>>, <<97>>}

DupValues == {Int64Value(Int64Bits(42)), StringValue(<<97>>), StringValue(<<>>)}

\* The lists of entries a peer can write.
EntryLists ==
    UNION {[1..n -> [key : DupKeys, value : DupValues]] : n \in 1..MaxWireEntries}

\* The buffer that holds the entries of lst in their order.
WrittenMessage(lst) ==
    LET vecPayload == EncodePayload(lst, 1)
    IN  AppendVector(EncodeHeader(vecPayload), vecPayload)

\* The buffer reaches the decoder holding the entries of lst.
WriteEntries(lst) ==
    /\ pc = "build"
    /\ vecMessage' = WrittenMessage(lst)
    /\ pc' = "edited"
    /\ UNCHANGED <<streamVars, hostLittleEndian, msgData, decodeVars>>

DupNext ==
    \/ \E lst \in EntryLists : WriteEntries(lst)
    \/ DecodeBegin
    \/ DecodeStep
    \/ DecodeReturn

SpecDup == Init /\ [][DupNext]_vars

-----------------------------------------------------------------------------
(* A key too long for its length field: a Message of one entry whose key   *)
(* is a run of one byte, encoded and decoded.                              *)

\* Key lengths around 2^16.
LongKeyLengths == {65535, 65536, 65537, 65540, 65793, 131072}

\* The byte the key is made of: the type codes of int64 and string, and "a".
LongKeyBytes == {TYPE_INT64, TYPE_STRING, 97}

\* The Message {std::string(len, byte): value}
LongMessage(k) == MapAssign(EmptyMessage, [i \in 1..k.len |-> k.byte], k.value)

\* The application chooses the key and the value.
LongBuild(n, b, svValue) ==
    /\ longPc = "build"
    /\ longKey' = [len |-> n, byte |-> b, value |-> svValue]
    /\ longPc' = "built"
    /\ UNCHANGED <<codecVars, linkVars, vecInserted, lifeVars, connVars, thrVars, longSeen>>

\* The buffer EncodeMessage(msgData), built by every step that reads it.
LongData == EncodeMessage(LongMessage(longKey))

\* vecData = EncodeMessage(msgData): the header, the key length field,
\* whether the whole key follows it, and the size of the buffer.
LongEncode ==
    /\ longPc = "built"
    /\ LET vecData == LongData
           unKeyAt == k_unHeaderSize + k_unKeyLengthSize
       IN  longSeen' = [header |-> SubSeq(vecData, 1, k_unHeaderSize),
                        keyLen |-> SubSeq(vecData, k_unHeaderSize + 1, unKeyAt),
                        keyWhole |-> SubSeq(vecData, unKeyAt + 1, unKeyAt + longKey.len)
                                        = [i \in 1..longKey.len |-> longKey.byte],
                        size |-> Len(vecData),
                        scan |-> Scan("", 0, EmptyMessage, 0)]
    /\ longPc' = "encoded"
    /\ UNCHANGED <<codecVars, linkVars, vecInserted, lifeVars, connVars, thrVars, longKey>>

\* DecodeMessage(vecData), up to the entry loop.
LongDecodeBegin ==
    /\ longPc = "encoded"
    /\ LET err == HeaderError(LongData)
       IN  /\ longSeen' = [longSeen EXCEPT
                              !.scan = Scan(err, k_unHeaderSize, EmptyMessage, k_unHeaderSize)]
           /\ longPc' = IF err = "" THEN "scan" ELSE "thrown"
    /\ UNCHANGED <<codecVars, linkVars, vecInserted, lifeVars, connVars, thrVars, longKey>>

\* One iteration of the entry loop.
LongDecodeStep ==
    /\ longPc = "scan"
    /\ LoopContinues(longSeen.scan.off, DeclaredLen(longSeen.header))
    /\ LET r == DecodeEntry(LongData, longSeen.scan.off, longSeen.scan.msg,
                            longSeen.scan.rd)
       IN  /\ longSeen' = [longSeen EXCEPT !.scan = r]
           /\ longPc' = IF r.err = "" THEN "scan" ELSE "thrown"
    /\ UNCHANGED <<codecVars, linkVars, vecInserted, lifeVars, connVars, thrVars, longKey>>

\* The loop ends: return msgDecoded.
LongDecodeReturn ==
    /\ longPc = "scan"
    /\ ~LoopContinues(longSeen.scan.off, DeclaredLen(longSeen.header))
    /\ longPc' = "returned"
    /\ UNCHANGED <<codecVars, linkVars, vecInserted, lifeVars, connVars, thrVars, longKey,
                   longSeen>>

LongNext ==
    \/ \E n \in LongKeyLengths, b \in LongKeyBytes, svValue \in OrderValues :
           LongBuild(n, b, svValue)
    \/ LongEncode
    \/ LongDecodeBegin
    \/ LongDecodeStep
    \/ LongDecodeReturn

SpecLong == Init /\ [][LongNext]_vars

\* Sizes of 2^32, 2^32 + 5 and 2^33 + 256 bytes, as size_t digits.
LongSizes ==
    { <<0, 0, 0, 1, 0, 0, 0, 0>>, <<0, 0, 0, 1, 0, 0, 0, 5>>, <<0, 0, 0, 2, 0, 0, 1, 0>> }

-----------------------------------------------------------------------------
(* The codec on one entry, on a host of either byte order: the Message is  *)
(* drawn from FieldMessages, encoded, and the encoding decoded.            *)

\* 64-bit patterns: +0.0, -0.0, 1.0, the largest finite double, the smallest
\* subnormal, +infinity, a quiet NaN with a payload, a signalling NaN, a
\* negative NaN with every bit set, and 01 02 ... 08.
Patterns64 ==
    { <<0, 0, 0, 0, 0, 0, 0, 0>>,
      <<128, 0, 0, 0, 0, 0, 0, 0>>,
      <<63, 240, 0, 0, 0, 0, 0, 0>>,
      <<127, 239, 255, 255, 255, 255, 255, 255>>,
      <<0, 0, 0, 0, 0, 0, 0, 1>>,
      <<127, 240, 0, 0, 0, 0, 0, 0>>,
      <<127, 248, 0, 0, 0, 0, 0, 1>>,
      <<127, 240, 0, 0, 0, 0, 0, 1>>,
      <<255, 255, 255, 255, 255, 255, 255, 255>>,
      <<1, 2, 3, 4, 5, 6, 7, 8>> }

FieldValues ==
    {Int64Value(p) : p \in Patterns64} \cup {UInt64Value(p) : p \in Patterns64}
        \cup {Float64Value(p) : p \in Patterns64}
        \cup {StringValue(<<>>), StringValue(<<97>>), BinaryValue(<<0, 255, 1>>)}

\* A Message of one entry, its key "" or "id".
FieldMessages ==
    {MapAssign(EmptyMessage, k, v) : k \in {<<>>, <<105, 100>>}, v \in FieldValues}

InitField ==
    /\ hostLittleEndian \in BOOLEAN
    /\ pc = "build"
    /\ msgData \in FieldMessages
    /\ vecMessage = <<>>
    /\ unPayloadLen = <<0, 0, 0, 0>>
    /\ unOffset = 0
    /\ msgDecoded = EmptyMessage
    /\ strError = ""
    /\ unReadEnd = 0
    /\ StreamIdle

FieldNext == Encode \/ DecodeBegin \/ DecodeStep \/ DecodeReturn

SpecField == InitField /\ [][FieldNext]_vars

-----------------------------------------------------------------------------
(* SBDPSocket.h: SendMessage and RecvMessage over one connection *)

codecIdle == <<hostLittleEndian, pc, msgData, vecMessage, decodeVars,
               vecInserted, lifeVars, connVars, thrVars, longVars>>

\* The Messages the sending peer sends: {}, {"": ""}, {"id": binary 00 FF}.
StreamMessages ==
    { EmptyMessage,
      MapAssign(EmptyMessage, <<>>, StringValue(<<>>)),
      MapAssign(EmptyMessage, <<105, 100>>, BinaryValue(<<0, 255>>)) }

\* unTimeoutMs of a RecvMessage call: none, or one second.
Timeouts == {0, 1000}

sndVars == <<sndPc, vecSend, unTotalSent, sndCalls, sndResults, wire>>
rcvVars == <<rcvPc, rcvStage, unTimeoutMs, unHeader, rcvBuffer, unLength, rcvResults, taken>>
shutVars == <<m_bShutdown, osShutdown, shutPc, bShutAtCall>>
timeVars == <<unWaited, unSilent, unElapsed>>
acceptVars == <<accPc, accResult, pending>>

\* Variant of Cancelled: the flag is never seen set.
Cancelled_Never(e) == FALSE

\* m_bShutdown.load() on Socket e
Cancelled(e) == m_bShutdown[e]

\* SendMessage(msgData): vecData = EncodeMessage(msgData), then SendAll.
SendMessageCall(m) ==
    /\ sndPc = "idle"
    /\ Len(sndCalls) < MaxMessages
    /\ sndCalls' = Append(sndCalls, m)
    /\ vecSend' = EncodeMessage(m)
    /\ unTotalSent' = 0
    /\ wire' = <<>>
    /\ sndPc' = "top"
    /\ bShutAtCall' = [bShutAtCall EXCEPT !["snd"] = (shutPc["snd"] = "done")]
    /\ UNCHANGED <<codecIdle, acceptVars, timeVars, stream, m_bShutdown, osShutdown,
                   shutPc, sndResults, rcvVars>>

\* bSendAll: the loop condition and the load of m_bShutdown; return true
\* when everything is sent.
SendTop ==
    /\ sndPc = "top"
    /\ IF unTotalSent < Len(vecSend)
       THEN IF Cancelled("snd")
            THEN /\ sndResults' = Append(sndResults, "operation_canceled")
                 /\ sndPc' = "failed"
            ELSE /\ sndPc' = "send"
                 /\ UNCHANGED sndResults
       ELSE /\ sndResults' = Append(sndResults, "ok")
            /\ sndPc' = "idle"
    /\ UNCHANGED <<codecIdle, acceptVars, timeVars, stream, shutVars, vecSend, unTotalSent,
                   sndCalls, wire, rcvVars>>

\* Variant: every send() starts again at pData.
SendSlice_FromStart(vec, unSent, n) == SubSeq(vec, 1, n)

\* pData + unTotalSent, of which send() takes n bytes
SendSlice(vec, unSent, n) == SubSeq(vec, unSent + 1, unSent + n)

\* Variant of SendAdvance: the count is not advanced past the first byte of
\* a write.
SendAdvance_ByOne(unSent, snSent) == unSent + 1

\* unTotalSent += static_cast<size_t>(snSent)
SendAdvance(unSent, snSent) == unSent + snSent

\* send() accepts n of the unLength - unTotalSent bytes offered.
SendChunk(n) ==
    /\ sndPc = "send"
    /\ ~osShutdown["snd"]
    /\ n >= 1
    /\ n <= Len(vecSend) - unTotalSent
    /\ n <= MaxInFlight - Len(stream)
    /\ stream' = stream \o SendSlice(vecSend, unTotalSent, n)
    /\ wire' = wire \o SendSlice(vecSend, unTotalSent, n)
    /\ unTotalSent' = SendAdvance(unTotalSent, n)
    /\ sndPc' = "top"
    /\ UNCHANGED <<codecIdle, acceptVars, timeVars, shutVars, vecSend, sndCalls, sndResults, rcvVars>>

\* send() returns SOCKET_ERROR, because the handle has been shut down or the
\* connection fails: vThrowSocketError("send").  The thread makes no further
\* call on a Socket whose call has thrown.
SendFail ==
    /\ sndPc = "send"
    /\ sndResults' = Append(sndResults, "send")
    /\ sndPc' = "failed"
    /\ UNCHANGED <<codecIdle, acceptVars, timeVars, stream, shutVars, vecSend, unTotalSent,
                   sndCalls, wire, rcvVars>>

\* RecvMessage(unTimeoutMs) up to its first RecvAll(unHeader, k_unHeaderSize).
RecvMessageCall(t) ==
    /\ rcvPc = "idle"
    /\ Len(rcvResults) < MaxMessages
    /\ unTimeoutMs' = t
    /\ rcvStage' = "header"
    /\ unHeader' = <<>>
    /\ unLength' = k_unHeaderSize
    /\ rcvBuffer' = <<>>
    /\ taken' = <<>>
    /\ unElapsed' = 0
    /\ rcvPc' = "top"
    /\ bShutAtCall' = [bShutAtCall EXCEPT !["rcv"] = (shutPc["rcv"] = "done")]
    /\ UNCHANGED <<codecIdle, acceptVars, unWaited, unSilent, stream, m_bShutdown,
                   osShutdown, shutPc, sndVars, rcvResults>>

\* An exception leaves RecvMessage; the bytes it had read are dropped.  The
\* thread makes no further call on a Socket whose call has thrown.
RecvThrow(strWhat) ==
    /\ rcvResults' = Append(rcvResults,
                            [err |-> strWhat, msg |-> EmptyMessage])
    /\ rcvPc' = "failed"
    /\ UNCHANGED <<rcvStage, unTimeoutMs, unHeader, rcvBuffer, unLength, taken>>

\* Variant of SelectArm: select() goes on with what the previous wait left of
\* the timeout.
SelectArm_Remaining(unUsed) == unUsed

\* What the wait of a new select() call has used of stTimeout: nothing, the
\* timeout being set afresh in every iteration.
SelectArm(unUsed) == 0

\* Variant of RecvLoop: the body of the loop runs before the first test, as
\* in a do ... while loop.
RecvLoop_BodyFirst(unTotalReceived, unLen) ==
    unTotalReceived < unLen \/ unTotalReceived = 0

\* while (unTotalReceived < unLength), the loop condition of bRecvAll and of
\* bRecvAllWithTimeout.
RecvLoop(unTotalReceived, unLen) == unTotalReceived < unLen

\* The loop condition of bRecvAll (with its load of m_bShutdown) and of
\* bRecvAllWithTimeout, bytes still missing.
RecvTop ==
    /\ rcvPc = "top"
    /\ RecvLoop(Len(rcvBuffer), unLength)
    /\ IF unTimeoutMs = 0
       THEN /\ IF Cancelled("rcv")
               THEN RecvThrow("operation_canceled")
               ELSE /\ rcvPc' = "recv"
                    /\ UNCHANGED <<rcvStage, unTimeoutMs, unHeader, rcvBuffer, unLength,
                                   rcvResults, taken>>
            /\ UNCHANGED <<unWaited, unSilent>>
       ELSE \* struct timeval stTimeout {}; ...: select() is given the whole
            \* timeout again
            /\ rcvPc' = "select"
            /\ unWaited' = SelectArm(unWaited)
            /\ unSilent' = 0
            /\ UNCHANGED <<rcvStage, unTimeoutMs, unHeader, rcvBuffer, unLength,
                           rcvResults, taken>>
    /\ UNCHANGED <<codecIdle, acceptVars, unElapsed, stream, shutVars, sndVars>>

\* RecvAll of the header returned true: the payload length is read from the
\* header and RecvAll of the payload starts.
RecvHeaderDone ==
    /\ rcvPc = "top"
    /\ rcvStage = "header"
    /\ ~RecvLoop(Len(rcvBuffer), unLength)
    /\ unHeader' = rcvBuffer
    /\ unLength' = NumValue(ntohl(MemcpyFrom(rcvBuffer, 0, k_unHeaderSize)))
    /\ rcvBuffer' = <<>>
    /\ taken' = <<>>
    /\ unElapsed' = 0
    /\ rcvStage' = "payload"
    /\ UNCHANGED <<codecIdle, acceptVars, unWaited, unSilent, stream, shutVars, sndVars,
                   rcvPc, unTimeoutMs, rcvResults>>

\* RecvAll of the payload returned true: return DecodeMessage(vecBuffer).
RecvPayloadDone ==
    /\ rcvPc = "top"
    /\ rcvStage = "payload"
    /\ ~RecvLoop(Len(rcvBuffer), unLength)
    /\ LET r == DecodeMessage(unHeader \o rcvBuffer)
       IN  rcvResults' = Append(rcvResults,
                                [err |-> r.err,
                                 msg |-> IF r.err = "" THEN r.msg ELSE EmptyMessage])
    /\ rcvPc' = "idle"
    /\ UNCHANGED <<codecIdle, acceptVars, timeVars, stream, shutVars, sndVars, rcvStage,
                   unTimeoutMs, unHeader, rcvBuffer, unLength, taken>>

\* The peer has shut its handle down and all it wrote has been read, or the
\* handle of this Socket has been shut down.
EndOfStream == (osShutdown["snd"] /\ stream = <<>>) \/ osShutdown["rcv"]

\* select() returns 0: nothing became readable within unTimeoutMs.
SelectTimeout ==
    /\ rcvPc = "select"
    /\ stream = <<>> /\ ~EndOfStream
    /\ RecvThrow("timed_out")
    /\ UNCHANGED <<codecIdle, acceptVars, timeVars, stream, shutVars, sndVars>>

\* select() returns a negative value: vThrowSocketError("select").
SelectFail ==
    /\ rcvPc = "select"
    /\ RecvThrow("select")
    /\ UNCHANGED <<codecIdle, acceptVars, timeVars, stream, shutVars, sndVars>>

\* select() reports the handle readable.
SelectReady ==
    /\ rcvPc = "select"
    /\ stream # <<>> \/ EndOfStream
    /\ rcvPc' = "check"
    /\ UNCHANGED <<codecIdle, acceptVars, timeVars, stream, shutVars, sndVars, rcvStage,
                   unTimeoutMs, unHeader, rcvBuffer, unLength, rcvResults, taken>>

\* bRecvAllWithTimeout: the load of m_bShutdown after select().
RecvCheck ==
    /\ rcvPc = "check"
    /\ IF Cancelled("rcv")
       THEN RecvThrow("operation_canceled")
       ELSE /\ rcvPc' = "recv"
            /\ UNCHANGED <<rcvStage, unTimeoutMs, unHeader, rcvBuffer, unLength, rcvResults,
                           taken>>
    /\ UNCHANGED <<codecIdle, acceptVars, timeVars, stream, shutVars, sndVars>>

\* Variant of RecvStore: every recv() stores at pBuffer.
RecvStore_AtStart(buf, bytes, n) ==
    IF n >= Len(buf) THEN SubSeq(bytes, 1, n)
    ELSE SubSeq(bytes, 1, n) \o SubSeq(buf, n + 1, Len(buf))

\* What recv() stores at pBuffer + unTotalReceived when it returns n.
RecvStore(buf, bytes, n) == buf \o SubSeq(bytes, 1, n)

\* recv() returns n of the unLength - unTotalReceived bytes asked for.
RecvChunk(n) ==
    /\ rcvPc = "recv"
    /\ n >= 1
    /\ n <= unLength - Len(rcvBuffer)
    /\ n <= Len(stream)
    /\ rcvBuffer' = RecvStore(rcvBuffer, stream, n)
    /\ taken' = taken \o SubSeq(stream, 1, n)
    /\ stream' = SubSeq(stream, n + 1, Len(stream))
    /\ rcvPc' = "top"
    /\ UNCHANGED <<codecIdle, acceptVars, timeVars, shutVars, sndVars, rcvStage, unTimeoutMs,
                   unHeader, unLength, rcvResults>>

\* recv() returns 0 (end of stream) or SOCKET_ERROR (the connection fails):
\* vThrowSocketError("recv").
RecvFail ==
    /\ rcvPc = "recv"
    /\ RecvThrow("recv")
    /\ UNCHANGED <<codecIdle, acceptVars, timeVars, stream, shutVars, sndVars>>

\* Shutdown() on Socket e, called by another thread: ::shutdown(m_hSocket, ...)
ShutdownCall(e) ==
    /\ shutPc[e] = "none"
    /\ osShutdown' = [osShutdown EXCEPT ![e] = TRUE]
    /\ shutPc' = [shutPc EXCEPT ![e] = "store"]
    /\ UNCHANGED <<codecIdle, acceptVars, timeVars, stream, m_bShutdown, bShutAtCall,
                   sndVars, rcvVars>>

\* ... then m_bShutdown.store(true)
ShutdownStore(e) ==
    /\ shutPc[e] = "store"
    /\ m_bShutdown' = [m_bShutdown EXCEPT ![e] = TRUE]
    /\ shutPc' = [shutPc EXCEPT ![e] = "done"]
    /\ UNCHANGED <<codecIdle, acceptVars, timeVars, stream, osShutdown, bShutAtCall,
                   sndVars, rcvVars>>

\* Accept(): Socket cClientSocket; ... ::accept(m_hSocket, ...) is called.
AcceptCall ==
    /\ accPc = "idle"
    /\ accPc' = "accept"
    /\ UNCHANGED <<codecIdle, timeVars, stream, shutVars, sndVars, rcvVars,
                   accResult, pending>>

\* A peer connects: its connection waits in the listen queue.
PeerConnect ==
    /\ accPc \in {"idle", "accept"}
    /\ ~pending
    /\ ~osShutdown["lst"]
    /\ pending' = TRUE
    /\ UNCHANGED <<codecIdle, timeVars, stream, shutVars, sndVars, rcvVars,
                   accPc, accResult>>

\* ::accept() returns the handle of a waiting connection: return cClientSocket.
AcceptConnect ==
    /\ accPc = "accept"
    /\ pending
    /\ pending' = FALSE
    /\ accResult' = "ok"
    /\ accPc' = "returned"
    /\ UNCHANGED <<codecIdle, timeVars, stream, shutVars, sndVars, rcvVars>>

\* ::accept() returns INVALID_SOCKET, because the handle has been shut down
\* or the call fails.
AcceptError ==
    /\ accPc = "accept"
    /\ accPc' = "check"
    /\ UNCHANGED <<codecIdle, timeVars, stream, shutVars, sndVars, rcvVars,
                   accResult, pending>>

\* Accept(): the load of m_bShutdown after ::accept() has failed, and the throw.
AcceptCheck ==
    /\ accPc = "check"
    /\ accResult' = IF Cancelled("lst") THEN "operation_canceled" ELSE "Accept failed"
    /\ accPc' = "thrown"
    /\ UNCHANGED <<codecIdle, timeVars, stream, shutVars, sndVars, rcvVars, pending>>

StreamNext ==
    \/ \E m \in StreamMessages : SendMessageCall(m)
    \/ SendTop
    \/ \E n \in 1..MaxInFlight : SendChunk(n)
    \/ SendFail
    \/ \E t \in Timeouts : RecvMessageCall(t)
    \/ RecvTop
    \/ RecvHeaderDone
    \/ RecvPayloadDone
    \/ SelectTimeout
    \/ SelectFail
    \/ SelectReady
    \/ RecvCheck
    \/ \E n \in 1..MaxInFlight : RecvChunk(n)
    \/ RecvFail
    \/ \E e \in Endpoints : ShutdownCall(e)
    \/ \E e \in Endpoints : ShutdownStore(e)

\* The codec is not in use.
CodecIdle ==
    /\ hostLittleEndian = TRUE
    /\ pc = "idle"
    /\ msgData = EmptyMessage
    /\ vecMessage = <<>>
    /\ unPayloadLen = <<0, 0, 0, 0>>
    /\ unOffset = 0
    /\ msgDecoded = EmptyMessage
    /\ strError = ""
    /\ unReadEnd = 0

InitStream == CodecIdle /\ StreamIdle

SpecStream == InitStream /\ [][StreamNext]_vars

-----------------------------------------------------------------------------
(* Two threads that each call SendMessage once on the same Socket. The     *)
(* peer is not modelled: stream and wire hold every byte send() accepted.  *)

thrIdle == <<codecVars, vecInserted, lifeVars, connVars, longVars, acceptVars, timeVars,
             shutVars, sndPc, vecSend, unTotalSent, sndCalls, sndResults, rcvVars>>

\* The Messages the threads send: the empty one, 4 bytes on the stream, and
\* {"": ""}, 11 bytes on the stream.
ThreadMessages == {EmptyMessage, MapAssign(EmptyMessage, <<>>, StringValue(<<>>))}

\* Variant of KeptOut: a mutex held by SendAll from its first send() to its
\* return.
KeptOut_ByMutex(t) ==
    \E u \in Threads \ {t} : thrPc[u] \in {"top", "send"} /\ thrSent[u] > 0

\* SendMessage, SendAll and bSendAll take no lock: no thread is kept out
\* of them by another.
KeptOut(t) == FALSE

\* SendMessage(msgData) up to the loop of bSendAll.
ThreadSendMessage(t, m) ==
    /\ thrPc[t] = "idle"
    /\ thrVec' = [thrVec EXCEPT ![t] = EncodeMessage(m)]
    /\ thrSent' = [thrSent EXCEPT ![t] = 0]
    /\ thrPc' = [thrPc EXCEPT ![t] = "top"]
    /\ UNCHANGED <<thrIdle, stream, wire>>

\* bSendAll: the loop test, then the test of m_bShutdown.
ThreadSendTop(t) ==
    /\ thrPc[t] = "top"
    /\ ~KeptOut(t)
    /\ thrPc' = [thrPc EXCEPT ![t] =
                    IF thrSent[t] < Len(thrVec[t])
                    THEN IF Cancelled("snd") THEN "failed" ELSE "send"
                    ELSE "done"]
    /\ UNCHANGED <<thrIdle, stream, wire, thrVec, thrSent>>

\* bSendAll: send() accepts n of the bytes left, at most MaxInFlight at once.
ThreadSendChunk(t, n) ==
    /\ thrPc[t] = "send"
    /\ ~KeptOut(t)
    /\ n >= 1
    /\ n <= Len(thrVec[t]) - thrSent[t]
    /\ stream' = stream \o SendSlice(thrVec[t], thrSent[t], n)
    /\ wire' = wire \o SendSlice(thrVec[t], thrSent[t], n)
    /\ thrSent' = [thrSent EXCEPT ![t] = SendAdvance(thrSent[t], n)]
    /\ thrPc' = [thrPc EXCEPT ![t] = "top"]
    /\ UNCHANGED <<thrIdle, thrVec>>

ThreadNext ==
    \/ \E t \in Threads, m \in ThreadMessages : ThreadSendMessage(t, m)
    \/ \E t \in Threads : ThreadSendTop(t)
    \/ \E t \in Threads, n \in 1..MaxInFlight : ThreadSendChunk(t, n)

SpecThreads == InitStream /\ [][ThreadNext]_vars

-----------------------------------------------------------------------------
(* A server: Accept() on the listening Socket, then one message over the   *)
(* accepted connection; Shutdown() is called once, on a Socket with a call *)
(* in flight.  The operating system is taken to return from a        *)
(* system call as soon as it can: send() and recv() when bytes can move or *)
(* the handle has been shut down, select() when the handle is readable or  *)
(* the timeout has passed, ::accept() when a connection waits or the       *)
(* handle has been shut down.                                              *)

\* A call on Socket e has begun and not ended.
InFlight(e) ==
    CASE e = "lst" -> accPc \in {"accept", "check"}
      [] e = "snd" -> sndPc \in {"top", "send"}
      [] e = "rcv" -> rcvPc \in {"top", "select", "check", "recv"}

\* Shutdown() has not been called on any Socket.
NoShutdownYet == \A e \in Sockets : shutPc[e] = "none"

\* The steps of RecvPayloadDone, told by where they start and where they
\* lead: RecvAll of the payload has all its bytes and RecvMessage returns.
RecvReturns ==
    /\ rcvPc = "top" /\ rcvStage = "payload" /\ ~RecvLoop(Len(rcvBuffer), unLength)
    /\ rcvPc' = "idle"

LiveSendReturn == (\E n \in 1..MaxInFlight : SendChunk(n)) \/ (osShutdown["snd"] /\ SendFail)

LiveRecvReturn == (\E n \in 1..MaxInFlight : RecvChunk(n)) \/ (EndOfStream /\ RecvFail)

LiveSelectReturn == SelectReady \/ SelectTimeout

LiveAcceptReturn == AcceptConnect \/ (osShutdown["lst"] /\ AcceptError)

LiveNext ==
    \/ AcceptCall
    \/ PeerConnect
    \/ LiveAcceptReturn
    \/ AcceptCheck
    \/ accPc = "returned" /\ sndCalls = <<>> /\ \E m \in StreamMessages : SendMessageCall(m)
    \/ SendTop
    \/ LiveSendReturn
    \/ accPc = "returned" /\ rcvResults = <<>> /\ \E t \in Timeouts : RecvMessageCall(t)
    \/ RecvTop
    \/ RecvHeaderDone
    \/ RecvPayloadDone
    \/ LiveSelectReturn
    \/ RecvCheck
    \/ LiveRecvReturn
    \/ \E e \in Sockets : InFlight(e) /\ NoShutdownYet /\ ShutdownCall(e)
    \/ \E e \in Sockets : ShutdownStore(e)

\* Every thread goes on running, and every system call returns when the
\* operating system can return from it.
LiveFairness ==
    /\ WF_vars(SendTop) /\ WF_vars(LiveSendReturn)
    /\ WF_vars(RecvTop) /\ WF_vars(RecvHeaderDone) /\ WF_rcvPc(RecvReturns)
    /\ WF_vars(LiveSelectReturn) /\ WF_vars(RecvCheck) /\ WF_vars(LiveRecvReturn)
    /\ WF_vars(LiveAcceptReturn) /\ WF_vars(AcceptCheck)
    /\ \A e \in Sockets : WF_vars(ShutdownStore(e))

SpecLive == InitStream /\ [][LiveNext]_vars /\ LiveFairness

-----------------------------------------------------------------------------
(* One RecvMessage with a timeout against a peer that sends one message    *)
(* when it likes, or none: no                                              *)
(* Shutdown() and no failing system call.  Time is counted, in steps of    *)
(* TickMs, while the receiver waits in select() with nothing readable.     *)

\* unTimeoutMs of a RecvMessage call of the timed model.
TimedTimeouts == {1000, 1500}

\* Variant of TimevalSec: the whole seconds are left out.
TimevalSec_Zero(unMs) == 0

\* stTimeout.tv_sec = static_cast<long>(unTimeoutMs / 1000)
TimevalSec(unMs) == unMs \div 1000

\* stTimeout.tv_usec = static_cast<long>((unTimeoutMs % 1000) * 1000)
TimevalUsec(unMs) == (unMs % 1000) * 1000

\* select() has waited as long as stTimeout allows (in microseconds).
SelectExpired ==
    unWaited * TickMs * 1000 >= TimevalSec(unTimeoutMs) * 1000000 + TimevalUsec(unTimeoutMs)

\* TickMs pass while select() waits and nothing is readable.
Tick ==
    /\ rcvPc = "select"
    /\ stream = <<>> /\ ~EndOfStream
    /\ ~SelectExpired
    /\ unWaited' = unWaited + 1
    /\ unSilent' = unSilent + 1
    /\ unElapsed' = Min(unElapsed + 1, MaxElapsed)
    /\ UNCHANGED <<codecIdle, acceptVars, stream, shutVars, sndVars, rcvVars>>

\* select() returns 0 when its timeout has passed.
SelectExpire == SelectExpired /\ SelectTimeout

TimedNext ==
    \/ sndCalls = <<>> /\ \E m \in StreamMessages : SendMessageCall(m)
    \/ SendTop
    \/ \E n \in 1..MaxInFlight : SendChunk(n)
    \/ rcvResults = <<>> /\ \E t \in TimedTimeouts : RecvMessageCall(t)
    \/ RecvTop
    \/ RecvHeaderDone
    \/ RecvPayloadDone
    \/ Tick
    \/ SelectExpire
    \/ SelectReady
    \/ RecvCheck
    \/ \E n \in 1..MaxInFlight : RecvChunk(n)

\* The receiving thread goes on running, time goes on, and select() and
\* recv() return when they can.
TimedFairness ==
    /\ WF_vars(RecvTop) /\ WF_vars(RecvHeaderDone) /\ WF_rcvPc(RecvReturns)
    /\ WF_vars(Tick) /\ WF_vars(SelectExpire) /\ WF_vars(SelectReady)
    /\ WF_vars(RecvCheck) /\ WF_vars(\E n \in 1..MaxInFlight : RecvChunk(n))

SpecTimed == InitStream /\ [][TimedNext]_vars /\ TimedFairness

-----------------------------------------------------------------------------
(* A receiver that calls RecvMessage again after a timeout: the peer sends *)
(* one message; a RecvMessage with a timeout that ended with timed_out is  *)
(* followed, once the peer's SendMessage has returned, by one more         *)
(* RecvMessage on the same Socket.                                         *)

\* The application catches timed_out and calls RecvMessage(t) again. The
\* locals unHeader and vecBuffer of the call that threw are gone.
RecvAgain(t) ==
    /\ rcvPc = "failed"
    /\ rcvResults[Len(rcvResults)].err = "timed_out"
    /\ sndResults = <<"ok">>
    /\ Len(rcvResults) < MaxMessages
    /\ unTimeoutMs' = t
    /\ rcvStage' = "header"
    /\ unHeader' = <<>>
    /\ unLength' = k_unHeaderSize
    /\ rcvBuffer' = <<>>
    /\ taken' = <<>>
    /\ unElapsed' = 0
    /\ rcvPc' = "top"
    /\ UNCHANGED <<codecIdle, acceptVars, unWaited, unSilent, stream, shutVars, sndVars,
                   rcvResults>>

RetryNext ==
    \/ sndCalls = <<>> /\ \E m \in StreamMessages : SendMessageCall(m)
    \/ SendTop
    \/ \E n \in 1..MaxInFlight : SendChunk(n)
    \/ rcvResults = <<>> /\ \E t \in TimedTimeouts : RecvMessageCall(t)
    \/ \E t \in Timeouts : RecvAgain(t)
    \/ RecvTop
    \/ RecvHeaderDone
    \/ RecvPayloadDone
    \/ SelectTimeout
    \/ SelectReady
    \/ RecvCheck
    \/ \E n \in 1..MaxInFlight : RecvChunk(n)

SpecRetry == InitStream /\ [][RetryNext]_vars

-----------------------------------------------------------------------------
(* The wire format, as the format description gives it, for stating the   *)
(* properties of the codec.                                               *)

\* The big-endian number held by the n bytes at offset off (saturated at Huge).
WireNum(vec, off, n) == NumValue(SubSeq(vec, off + 1, off + n))

\* The declared payload length accounts for the whole buffer.
LengthConsistent(vec) ==
    Len(vec) >= 4 /\ Len(vec) = 4 + WireNum(vec, 0, 4)

\* Reading Entry* from offset off to the end of the buffer: "End" when the
\* entries end with the buffer, "UnknownType" when an entry whose key fits
\* has a type code outside 1..5, else the first field that does not fit in
\* the bytes that remain.
RECURSIVE WireScan(_, _)
WireScan(vec, off) ==
    LET rest == Len(vec) - off
    IN  IF rest = 0 THEN "End"
        ELSE IF rest < 2 THEN "KeyLen"
        ELSE LET k == WireNum(vec, off, 2)
             IN  IF rest - 2 < k THEN "Key"
                 ELSE IF rest - 2 - k < 1 THEN "TypeCode"
                 ELSE LET t == vec[off + 2 + k + 1]
                          v == off + 2 + k + 1
                          left == Len(vec) - v
                      IN  IF t \in {1, 2, 3}
                          THEN IF left < 8
                               THEN (IF t = 1 THEN "Int64" ELSE IF t = 2 THEN "UInt64" ELSE "Float64")
                               ELSE WireScan(vec, v + 8)
                          ELSE IF t \in {4, 5}
                          THEN IF left < 4
                               THEN (IF t = 4 THEN "StrLen" ELSE "BinLen")
                               ELSE LET n == WireNum(vec, v, 4)
                                    IN  IF left - 4 < n
                                        THEN (IF t = 4 THEN "Str" ELSE "Bin")
                                        ELSE WireScan(vec, v + 4 + n)
                          ELSE "UnknownType"

Fields == {"KeyLen", "Key", "TypeCode", "Int64", "UInt64", "Float64",
           "StrLen", "Str", "BinLen", "Bin"}

\* The exception that reports a field as truncated.
TruncatedField(name) ==
    CASE name = "KeyLen" -> "Key length read error"
      [] name = "Key" -> "Key string region insufficient"
      [] name = "TypeCode" -> "Type code read error"
      [] name = "Int64" -> "int64 read error"
      [] name = "UInt64" -> "uint64 read error"
      [] name = "Float64" -> "float64_t read error"
      [] name = "StrLen" -> "String length read error"
      [] name = "Str" -> "String data insufficient"
      [] name = "BinLen" -> "Binary length read error"
      [] name = "Bin" -> "Binary data insufficient"

FormatErrors ==
    {"Message too short", "Incomplete message", "Message too big", "Unknown type code"}
        \cup {TruncatedField(f) : f \in Fields}

\* DecodeMessage(vecMessage) has been called / has ended.
DecodeStarted == pc \in {"scan", "thrown", "returned"}
DecodeEnded == pc \in {"thrown", "returned"}

\* {"id": int64(42), "name": string("alice")}, "name" assigned first.
ScenarioMessage ==
    MapAssign(MapAssign(EmptyMessage, <<110, 97, 109, 101>>,
                        StringValue(<<97, 108, 105, 99, 101>>)),
              <<105, 100>>, Int64Value(Int64Bits(42)))

\* The entries of the scenario: 13 bytes for "id", 16 bytes for "name".
ScenarioEntries ==
    <<0, 2, 105, 100,  1,  0, 0, 0, 0, 0, 0, 0, 42,
      0, 4, 110, 97, 109, 101,  4,  0, 0, 0, 5,  97, 108, 105, 99, 101>>

\* msgData holds exactly "id" = int64(42) and "name" = string("alice").
IsScenario(m) ==
    /\ MapKeys(m) = {<<105, 100>>, <<110, 97, 109, 101>>}
    /\ \E i \in 1..Len(m) :
           m[i] = [key |-> <<105, 100>>, value |-> Int64Value(Int64Bits(42))]
    /\ \E i \in 1..Len(m) :
           m[i] = [key |-> <<110, 97, 109, 101>>,
                   value |-> StringValue(<<97, 108, 105, 99, 101>>)]

-----------------------------------------------------------------------------
(* Properties *)

\* What a RecvMessage that did not return a Message threw because of a
\* shutdown, a timeout or an I/O error.
TransportErrors == {"operation_canceled", "timed_out", "select", "recv"}

\* C1: on one connection, however the stream splits the bytes into partial
\* writes and partial reads, the i-th RecvMessage that returns a Message
\* returns the Message of the i-th SendMessage, and a RecvMessage fails only
\* on a shutdown, a timeout or an I/O error, never on the bytes it received.
C1_InOrderDelivery ==
    \A i \in 1..Len(rcvResults) :
        IF rcvResults[i].err = ""
        THEN i <= Len(sndCalls) /\ rcvResults[i].msg = sndCalls[i]
        ELSE rcvResults[i].err \in TransportErrors

\* Two different Messages, one of them too long for the stream to carry in
\* one piece, have been sent and received with no shutdown.
C1_Witness ==
    /\ Len(sndResults) = 2 /\ sndResults[1] = "ok" /\ sndResults[2] = "ok"
    /\ Len(rcvResults) = 2 /\ rcvResults[1].err = "" /\ rcvResults[2].err = ""
    /\ rcvResults[1].msg # rcvResults[2].msg
    /\ \E i \in 1..2 : Len(EncodeMessage(sndCalls[i])) > MaxInFlight
    /\ \A e \in Sockets : shutPc[e] = "none"
    /\ stream = <<>>

\* C2: decoding the encoding of a Message returns that Message, entry for
\* entry: when DecodeMessage ends on the unedited output of
\* EncodeMessage(msgData) it has returned, and what it returns is msgData.
C2_RoundTrip ==
    (DecodeEnded /\ vecMessage = EncodeMessage(msgData))
        => (pc = "returned" /\ strError = "" /\ msgDecoded = msgData)

C2_Witness ==
    /\ pc = "returned"
    /\ vecMessage = EncodeMessage(msgData)
    /\ Len(msgData) = 2
    /\ <<>> \in MapKeys(msgData)

\* C3: a buffer longer than 4 + its declared payload length is rejected with
\* "Message too big" and no Message; so are two encoded messages one after
\* the other and an encoded message followed by one more byte.
C3_Oversized ==
    (DecodeStarted /\ Len(vecMessage) >= 4
        /\ Len(vecMessage) > 4 + WireNum(vecMessage, 0, 4))
        => (pc = "thrown" /\ strError = "Message too big" /\ msgDecoded = EmptyMessage)

C3_Witness ==
    /\ pc = "thrown"
    /\ strError = "Message too big"
    /\ Len(msgData) >= 1
    /\ vecMessage = EncodeMessage(msgData) \o EncodeMessage(msgData)

\* C4: a buffer of fewer than 4 bytes is rejected with "Message too short",
\* a buffer of at least 4 bytes shorter than 4 + its declared payload length
\* with "Incomplete message"; in both cases before any entry is read (nothing
\* beyond the header has been read and the Message is empty).
C4_ShortOrIncomplete ==
    DecodeStarted =>
        /\ Len(vecMessage) < 4
              => (pc = "thrown" /\ strError = "Message too short"
                  /\ msgDecoded = EmptyMessage /\ unReadEnd = 0)
        /\ (Len(vecMessage) >= 4 /\ Len(vecMessage) < 4 + WireNum(vecMessage, 0, 4))
              => (pc = "thrown" /\ strError = "Incomplete message"
                  /\ msgDecoded = EmptyMessage /\ unReadEnd = 4)

C4_Witness ==
    /\ pc = "thrown"
    /\ strError = "Incomplete message"
    /\ SubSeq(vecMessage, 1, 4) = <<255, 255, 255, 252>>
    /\ Len(vecMessage) > 4

\* C5: decoding a proper prefix of an encoded message throws a format error
\* and returns no Message.
C5_Truncation ==
    LET enc == EncodeMessage(msgData)
    IN  (DecodeEnded /\ Len(vecMessage) < Len(enc)
            /\ vecMessage = SubSeq(enc, 1, Len(vecMessage)))
            => (pc = "thrown" /\ strError \in FormatErrors)

\* a message of two entries cut at the end of its first entry
C5_Witness ==
    /\ pc = "thrown"
    /\ Len(msgData) = 2
    /\ vecMessage = SubSeq(EncodeMessage(msgData), 1,
                           k_unHeaderSize + Len(EncodePayload(<<msgData[1]>>, 1)))

\* C6: no read of an entry reaches an index at or beyond 4 + the declared
\* payload length, and a decode that returns has its scan offset exactly at
\* 4 + the declared payload length.
C6_ExactConsumption ==
    (DecodeStarted /\ Len(vecMessage) >= 4) =>
        /\ unReadEnd <= 4 + WireNum(vecMessage, 0, 4)
        /\ pc = "returned" => unOffset = 4 + WireNum(vecMessage, 0, 4)

\* a decode that returns after an edit, having read entries up to the end
C6_Witness ==
    /\ pc = "returned"
    /\ vecMessage # EncodeMessage(msgData)
    /\ Len(msgDecoded) >= 1
    /\ unReadEnd = 4 + WireNum(vecMessage, 0, 4)

\* C7: in a length-consistent buffer, when the entries are well formed up to
\* an entry whose type code is outside 1..5, decode throws "Unknown type
\* code".
C7_UnknownType ==
    (DecodeEnded /\ LengthConsistent(vecMessage)
        /\ WireScan(vecMessage, 4) = "UnknownType")
        => (pc = "thrown" /\ strError = "Unknown type code")

\* the second entry carries type code 0 or 6
C7_Witness ==
    /\ pc = "thrown"
    /\ strError = "Unknown type code"
    /\ Len(msgDecoded) = 1
    /\ vecMessage[unOffset] \in {0, 6}

C9_HeaderIsPayloadLength ==
    pc = "encoded"
        => (Len(vecMessage) >= 4
            /\ WireNum(vecMessage, 0, 4) = Len(vecMessage) - 4)

C9_Witness ==
    /\ pc = "encoded"
    /\ Len(msgData) = 2
    /\ Len(vecMessage) > 4

\* C10 as stated: the Message {"id": int64(42), "name": string("alice")}
\* encodes to the header 00 00 00 15 (a 21-byte payload) followed by the
\* entries 00 02 69 64 | 01 | 00 00 00 00 00 00 00 2A |
\* 00 04 6E 61 6D 65 | 04 | 00 00 00 05 61 6C 69 63 65.
C10_ScenarioEncoding ==
    (pc = "encoded" /\ IsScenario(msgData))
        => vecMessage = <<0, 0, 0, 21>> \o ScenarioEntries

\* C10 amended: the entries are as stated and in that order, but they
\* take 13 + 16 = 29 bytes, so the header is 00 00 00 1D.
C10_ScenarioEncodingAmended ==
    (pc = "encoded" /\ IsScenario(msgData))
        => vecMessage = <<0, 0, 0, 29>> \o ScenarioEntries

C10_Witness ==
    /\ pc = "encoded"
    /\ msgData = ScenarioMessage
    /\ IsScenario(msgData)
    /\ Len(vecMessage) = 33

\* C11 as stated: decoding the header 00 00 00 15 followed by the entries
\* of "id" = int64(42) and "name" = string("alice") returns the Message
\* {"id": int64(42), "name": string("alice")}.
C11_ScenarioDecoding ==
    (DecodeEnded /\ vecMessage = ScenarioHeader \o ScenarioEntries)
        => (pc = "returned" /\ msgDecoded = ScenarioMessage)

\* C11 amended: the 29 entry bytes decode to that Message under the header
\* 00 00 00 1D; under the header 00 00 00 15 they are 8 bytes more than
\* declared and the buffer is rejected with "Message too big".
C11_ScenarioDecodingAmended ==
    /\ (DecodeEnded /\ vecMessage = <<0, 0, 0, 29>> \o ScenarioEntries)
           => (pc = "returned" /\ strError = "" /\ msgDecoded = ScenarioMessage)
    /\ (DecodeEnded /\ vecMessage = ScenarioHeader \o ScenarioEntries)
           => (pc = "thrown" /\ strError = "Message too big"
               /\ msgDecoded = EmptyMessage)

C11_Witness ==
    /\ pc = "returned"
    /\ vecMessage = <<0, 0, 0, 29>> \o ScenarioEntries
    /\ Len(msgDecoded) = 2

\* The last element of a non-empty sequence.
LastOf(q) == q[Len(q)]

\* The value of the one entry of msgData, and where its encoding puts the
\* type code.
FieldValue == msgData[1].value
FieldTypeAt == k_unHeaderSize + k_unKeyLengthSize + Len(msgData[1].key)

\* C24: in SpecField on a little-endian host, a float64 value of bit
\* pattern p is encoded as type code 3 followed by the 8 bytes of p, most
\* significant first, and the decode of the encoding returns a float64 of
\* exactly the bit pattern p.
C24_FloatBitExact ==
    (hostLittleEndian /\ FieldValue.type = TYPE_FLOAT64) =>
        /\ pc # "build" =>
              /\ vecMessage[FieldTypeAt + 1] = TYPE_FLOAT64
              /\ SubSeq(vecMessage, FieldTypeAt + 2, FieldTypeAt + 9) = FieldValue.val
              /\ Len(vecMessage) = FieldTypeAt + 9
        /\ DecodeEnded =>
              /\ pc = "returned"
              /\ msgDecoded = <<[key |-> msgData[1].key, value |-> Float64Value(FieldValue.val)]>>

\* A signalling NaN has been encoded and decoded.
C24_Witness ==
    /\ hostLittleEndian
    /\ pc = "returned"
    /\ FieldValue = Float64Value(<<127, 240, 0, 0, 0, 0, 0, 1>>)
    /\ msgDecoded = msgData

\* C25: for the 64-bit pattern x of the entry's value, ntohll(htonll(x)) = x;
\* for each 32-bit half y of it, ntohl(htonl(y)) = y; for each 16-bit
\* quarter z of it, ntohs(htons(z)) = z.
C25_EndianRoundTrip ==
    FieldValue.type \in {TYPE_INT64, TYPE_UINT64, TYPE_FLOAT64} =>
        LET x == FieldValue.val
        IN  /\ ntohll(htonll(x)) = x
            /\ \A i \in {1, 5} : ntohl(htonl(SubSeq(x, i, i + 3))) = SubSeq(x, i, i + 3)
            /\ \A i \in {1, 3, 5, 7} : ntohs(htons(SubSeq(x, i, i + 1))) = SubSeq(x, i, i + 1)

\* The pattern 01 02 ... 08, which no conversion leaves as it is, has gone
\* through htonll in Encode and ntohll in the decode.
C25_Witness ==
    /\ pc = "returned"
    /\ FieldValue = UInt64Value(<<1, 2, 3, 4, 5, 6, 7, 8>>)
    /\ htonll(FieldValue.val) # FieldValue.val
    /\ msgDecoded = msgData

\* C26 (as stated): in SpecField, on a host of either byte order, the
\* encoding holds the payload length, the key length and the integer value
\* or the value length most significant byte first, and the decode returns
\* the Message.
C26_WireIsBigEndian ==
    /\ pc # "build" =>
          /\ SubSeq(vecMessage, 1, 4) = ToU32(Len(vecMessage) - k_unHeaderSize)
          /\ SubSeq(vecMessage, 5, 6) = ToU16(Len(msgData[1].key))
          /\ SubSeq(vecMessage, FieldTypeAt + 2,
                    FieldTypeAt + 1 + (IF FieldValue.type \in {TYPE_STRING, TYPE_BINARY}
                                       THEN 4 ELSE 8))
                = (IF FieldValue.type \in {TYPE_STRING, TYPE_BINARY}
                   THEN ToU32(Len(FieldValue.val)) ELSE FieldValue.val)
    /\ DecodeEnded => (pc = "returned" /\ msgDecoded = msgData)

\* Byte-lexicographic order: at the first position where two strings
\* differ the smaller byte (0..255) decides; a proper prefix comes first.
RECURSIVE LexLess(_, _)
LexLess(a, b) ==
    IF b = <<>> THEN FALSE
    ELSE IF a = <<>> THEN TRUE
    ELSE IF a[1] # b[1] THEN a[1] < b[1]
    ELSE LexLess(Tail(a), Tail(b))

\* The keys of the entries that stand in a well-formed buffer from offset
\* off on, in the order in which they stand.
RECURSIVE WireKeys(_, _)
WireKeys(vec, off) ==
    IF off + 2 >= Len(vec) THEN <<>>
    ELSE LET k == WireNum(vec, off, 2)
             t == vec[off + 2 + k + 1]
             v == off + 2 + k + 1
             n == IF t \in {TYPE_STRING, TYPE_BINARY} THEN 4 + WireNum(vec, v, 4) ELSE 8
         IN  <<SubSeq(vec, off + 3, off + 2 + k)>> \o WireKeys(vec, v + n)

\* The Message that assigning the entries of m in the order f builds.
RECURSIVE Reassigned(_, _, _)
Reassigned(m, f, i) ==
    IF i = 0 THEN EmptyMessage
    ELSE MapAssign(Reassigned(m, f, i - 1), m[f[i]].key, m[f[i]].value)

\* C27: in SpecOrder the keys stand in EncodeMessage(msgData) in strictly
\* ascending byte-lexicographic order, one for each key assigned, and the
\* encoding is that of the Message built by assigning the same entries in
\* any other order.
C27_CanonicalKeyOrder ==
    pc = "encoded" =>
        LET keys == WireKeys(vecMessage, k_unHeaderSize)
        IN  /\ Len(keys) = Len(vecInserted)
            /\ {keys[i] : i \in 1..Len(keys)} = {vecInserted[i] : i \in 1..Len(vecInserted)}
            /\ \A i \in 1..(Len(keys) - 1) : LexLess(keys[i], keys[i + 1])
            /\ \A f \in EntryOrders(Len(msgData)) :
                   EncodeMessage(Reassigned(msgData, f, Len(msgData))) = vecMessage

\* The key FF was assigned before the key "a", and the Message is encoded.
C27_Witness ==
    /\ pc = "encoded"
    /\ vecInserted = <<<<255>>, <<97>>>>
    /\ WireKeys(vecMessage, k_unHeaderSize) = <<<<97>>, <<255>>>>

\* C28: in SpecOrder a buffer that holds the entries of the encoding of
\* msgData in any order, under the same header, decodes without an error to
\* msgData.
C28_AnyEntryOrder ==
    (DecodeEnded /\ \E f \in EntryOrders(Len(msgData)) :
                        vecMessage = PermutedMessage(msgData, f))
        => (pc = "returned" /\ strError = "" /\ msgDecoded = msgData)

\* A buffer whose two entries stand in descending key order has been decoded.
C28_Witness ==
    /\ pc = "returned"
    /\ Len(msgData) = 2
    /\ vecMessage # EncodeMessage(msgData)
    /\ LET keys == WireKeys(vecMessage, k_unHeaderSize)
       IN  Len(keys) = 2 /\ LexLess(keys[2], keys[1])
    /\ msgDecoded = msgData

\* The live Socket objects that hold the handle h.
Holders(h) == {o \in Objects : bLive[o] /\ m_hSocket[o] = h}

\* C21: in SpecLife, over any sequence of Create, Accept, move construction,
\* move assignment, Close and destruction, ::close is called at most once
\* on each handle acquired and never on one not acquired; and a Close() on a
\* Socket that holds no handle calls nothing and changes no Socket.
C21_CloseAtMostOnce ==
    /\ [](\A h \in Handles : unCloses[h] <= (IF h <= unAcquired THEN 1 ELSE 0))
    /\ [][(strOp'[1] = "Close" /\ m_hSocket[strOp'[2]] = INVALID_SOCKET)
             => UNCHANGED <<bLive, m_hSocket, unAcquired, unCloses>>]_vars

\* Close() has just been called on a Socket that holds no handle, after the
\* handle this Socket acquired was closed.
C21_Witness ==
    /\ strOp[1] = "Close" /\ strOp[4] = INVALID_SOCKET
    /\ unAcquired >= 1 /\ unCloses[1] = 1
    /\ \A o \in Objects : m_hSocket[o] = INVALID_SOCKET

\* What a move from other to o does: o holds the handle other held, other
\* holds the invalid handle.
MovePost(o, other) ==
    /\ m_hSocket'[o] = m_hSocket[other]
    /\ m_hSocket'[other] = INVALID_SOCKET

\* A move assignment to o made ::close be called on what o held, and on
\* nothing else.
ClosedPrevious(o) ==
    unCloses' = IF m_hSocket[o] = INVALID_SOCKET THEN unCloses
                ELSE OsClose(unCloses, m_hSocket[o])

\* C22 (amended): in SpecLife at most one live Socket holds a given open
\* handle; after the move construction of a Socket, or a move assignment
\* between two different Sockets, the source holds the invalid handle and
\* the destination the handle the source held, and the move assignment has
\* closed the handle the destination held; the move assignment of a Socket
\* to itself changes nothing.
C22_SingleOwner ==
    /\ [](\A h \in Handles : Cardinality(Holders(h)) <= 1)
    /\ [][/\ strOp'[1] = "MoveConstruct" => MovePost(strOp'[2], strOp'[3])
          /\ (strOp'[1] = "MoveAssign" /\ strOp'[2] # strOp'[3]) =>
                 /\ MovePost(strOp'[2], strOp'[3])
                 /\ ClosedPrevious(strOp'[2])
          /\ (strOp'[1] = "MoveAssign" /\ strOp'[2] = strOp'[3]) =>
                 UNCHANGED <<bLive, m_hSocket, unAcquired, unCloses>>]_vars

\* A move assignment between two Sockets that both held an open handle has
\* just been made: the destination's handle is closed, the source's handle
\* is in the destination.
C22_Witness ==
    /\ strOp[1] = "MoveAssign" /\ strOp[2] # strOp[3]
    /\ strOp[4] # INVALID_SOCKET /\ unCloses[strOp[4]] = 1
    /\ m_hSocket[strOp[2]] \notin {INVALID_SOCKET, strOp[4]}
    /\ m_hSocket[strOp[3]] = INVALID_SOCKET

\* C22 (as stated): after any move construction or move assignment the
\* source holds the invalid handle and the destination the handle the
\* source held, and the move assignment has closed the handle the
\* destination held.
C22_AsStated ==
    /\ [](\A h \in Handles : Cardinality(Holders(h)) <= 1)
    /\ [][/\ strOp'[1] = "MoveConstruct" => MovePost(strOp'[2], strOp'[3])
          /\ strOp'[1] = "MoveAssign" =>
                 /\ MovePost(strOp'[2], strOp'[3])
                 /\ ClosedPrevious(strOp'[2])]_vars

\* The candidates that connect.
Connecting == {i \in 1..Len(vecOutcomes) : vecOutcomes[i]}

\* C23: in SpecConn the candidates are tried in list order, one after the
\* other from the first; none is tried after one that connected; Connect
\* returns true exactly when the resolution succeeded and a candidate
\* connected, and then the last one tried is the first that connects; and
\* it returns false only when the resolution failed, nothing being tried,
\* or when every candidate was tried and failed.
C23_ConnectInOrder ==
    /\ vecTried = [i \in 1..Len(vecTried) |-> i]
    /\ Len(vecTried) <= Len(vecOutcomes)
    /\ \A i \in 1..(Len(vecTried) - 1) : ~vecOutcomes[vecTried[i]]
    /\ conPc = "returned" =>
          /\ bConnected = (bResolved /\ Connecting # {})
          /\ bConnected =>
                /\ vecTried # <<>>
                /\ vecOutcomes[vecTried[Len(vecTried)]]
                /\ \A i \in Connecting : vecTried[Len(vecTried)] <= i
          /\ ~bConnected =>
                \/ ~bResolved /\ vecTried = <<>>
                \/ /\ bResolved
                   /\ Len(vecTried) = Len(vecOutcomes)
                   /\ \A i \in 1..Len(vecOutcomes) : ~vecOutcomes[i]

\* Connect has returned true after the second of three candidates
\* connected, the first having failed: the third, which would connect too,
\* was not tried.
C23_Witness ==
    /\ conPc = "returned" /\ bConnected
    /\ vecOutcomes = <<FALSE, TRUE, TRUE>>
    /\ vecTried = <<1, 2>>

\* The lengths i for which the first k bytes of w are an interleaving of
\* the first i bytes of a and the first k - i bytes of b.
RECURSIVE MergeSet(_, _, _, _)
MergeSet(w, a, b, k) ==
    IF k = 0 THEN {0}
    ELSE LET F == MergeSet(w, a, b, k - 1)
         IN  {i \in 0..Len(a) :
                \/ i >= 1 /\ (i - 1) \in F /\ a[i] = w[k]
                \/ /\ i \in F
                   /\ k - i >= 1 /\ k - i <= Len(b)
                   /\ b[k - i] = w[k]}

\* w holds the bytes of a and those of b, each in their order.
IsMerge(w, a, b) ==
    /\ Len(w) = Len(a) + Len(b)
    /\ Len(a) \in MergeSet(w, a, b, Len(w))

\* The bytes thread t has sent.
ThreadSentBytes(t) == SubSeq(thrVec[t], 1, thrSent[t])

\* C29: in SpecThreads nothing keeps a thread out of send() while another
\* thread is in the middle of its SendMessage on the same Socket: a thread
\* that is at its send() can always make it; the stream holds the bytes
\* each thread has sent in that thread's order, interleaved in any way.
\* (The execution the claim says exists is C29_Witness.)
C29_NoLocking ==
    /\ \A t \in Threads : thrPc[t] = "send" => ENABLED ThreadSendChunk(t, 1)
    /\ \A t \in Threads : thrPc[t] = "top" => ENABLED ThreadSendTop(t)
    /\ IsMerge(wire, ThreadSentBytes(1), ThreadSentBytes(2))
    /\ stream = wire

\* Both SendMessage calls have returned true, of two different Messages,
\* and the stream is neither encoding followed by the other.
C29_Witness ==
    /\ \A t \in Threads : thrPc[t] = "done"
    /\ thrVec[1] # thrVec[2]
    /\ wire # thrVec[1] \o thrVec[2]
    /\ wire # thrVec[2] \o thrVec[1]

\* The entries that stand in the payload of vec from offset off on, in
\* their order, vec being a buffer of well-formed entries.
RECURSIVE WireEntries(_, _)
WireEntries(vec, off) ==
    IF off + 2 >= Len(vec) THEN <<>>
    ELSE LET k == WireNum(vec, off, 2)
             v == off + 2 + k + 1
             t == vec[v]
             n == IF t \in {TYPE_STRING, TYPE_BINARY} THEN WireNum(vec, v, 4) ELSE 8
             b == IF t \in {TYPE_STRING, TYPE_BINARY} THEN v + 4 ELSE v
         IN  <<[key |-> SubSeq(vec, off + 3, off + 2 + k),
                value |-> [type |-> t, val |-> SubSeq(vec, b + 1, b + n)]]>>
                 \o WireEntries(vec, b + n)

\* vec is length-consistent and holds only well-formed entries, two of
\* them at least with the same key.
HasDuplicateKey(vec) ==
    /\ LengthConsistent(vec)
    /\ WireScan(vec, k_unHeaderSize) = "End"
    /\ LET e == WireEntries(vec, k_unHeaderSize)
       IN  \E i, j \in 1..Len(e) : i < j /\ e[i].key = e[j].key

\* C31: in SpecDup a length-consistent buffer of well-formed entries, two or
\* more of them with the same key, decodes without an error to a Message
\* that holds each key of the buffer once, and nothing else, with the type
\* and the value of the last entry of the buffer that has the key.
C31_LastDuplicateWins ==
    (DecodeEnded /\ HasDuplicateKey(vecMessage)) =>
        LET e == WireEntries(vecMessage, k_unHeaderSize)
        IN  /\ pc = "returned" /\ strError = ""
            /\ \A i, j \in 1..Len(msgDecoded) :
                   msgDecoded[i].key = msgDecoded[j].key => i = j
            /\ MapKeys(msgDecoded) = {e[i].key : i \in 1..Len(e)}
            /\ \A i \in 1..Len(msgDecoded) :
                   \E j \in 1..Len(e) :
                      /\ e[j].key = msgDecoded[i].key
                      /\ \A k \in (j + 1)..Len(e) : e[k].key # e[j].key
                      /\ e[j].value = msgDecoded[i].value

\* The buffer held "a" three times, as int64 42, then as the string "a",
\* then as the empty string; it has been decoded to {"a": ""}.
C31_Witness ==
    /\ pc = "returned"
    /\ vecMessage = WrittenMessage(<<[key |-> <<97>>, value |-> Int64Value(Int64Bits(42))],
                                     [key |-> <<97>>, value |-> StringValue(<<97>>)],
                                     [key |-> <<97>>, value |-> StringValue(<<>>)]>>)
    /\ msgDecoded = <<[key |-> <<97>>, value |-> StringValue(<<>>)]>>

\* C32 (as stated): in SpecRetry, when a RecvMessage has ended with
\* timed_out and the peer has then finished sending its message, the next
\* RecvMessage on the Socket, once it has ended, has returned the Message
\* the peer sent.
C32_TimeoutLosesNoData ==
    (Len(rcvResults) = 2 /\ rcvResults[1].err = "timed_out" /\ rcvPc \in {"idle", "failed"})
        => rcvResults[2] = [err |-> "", msg |-> sndCalls[1]]

\* The last operation was a SendAll or RecvAll, and it threw
\* operation_canceled.
TransferCancelled ==
    strOp[1] \in {"SendAll", "RecvAll"} /\ strOp[4] = "operation_canceled"

\* C33 (as stated): in SpecFlag the flag m_bShutdown of a Socket is set only
\* if Shutdown() was called on the handle the Socket holds, and a SendAll or
\* RecvAll throws operation_canceled only on a handle Shutdown() was called
\* on.
C33_FlagOnlyForOwnedHandle ==
    /\ \A o \in Objects :
          (bLive[o] /\ m_bShutdownOf[o]) => m_hSocket[o] \in osShutdownOf
    /\ TransferCancelled => m_hSocket[strOp[2]] \in osShutdownOf

\* C34 (as stated): in SpecFlag the Socket that holds a handle Shutdown()
\* was called on has its flag set, whatever moves the handle went through,
\* so that every SendAll and RecvAll on it throws operation_canceled; and
\* the Socket move-constructed from a Socket whose flag is clear, like the
\* Socket Accept returns, has its flag clear.
C34_CancellationFollowsMove ==
    /\ [](\A o \in Objects :
            (bLive[o] /\ m_hSocket[o] \in osShutdownOf) => m_bShutdownOf[o])
    /\ []((strOp[1] \in {"SendAll", "RecvAll"} /\ m_hSocket[strOp[2]] \in osShutdownOf)
            => TransferCancelled)
    /\ [][/\ (strOp'[1] = "MoveConstruct" /\ ~m_bShutdownOf[strOp'[3]])
                => ~m_bShutdownOf'[strOp'[2]]
          /\ (strOp'[1] = "Accept" /\ bLive'[strOp'[3]])
                => ~m_bShutdownOf'[strOp'[3]]]_vars

\* C35 (as stated): in SpecFlag, once every Socket has been destroyed,
\* ::close has been called on every handle a Socket acquired.
C35_NoHandleLeaked ==
    (\A o \in Objects : ~bLive[o])
        => \A h \in Handles : h <= unAcquired => unCloses[h] = 1

\* A RecvMessage call has read a header that declares a payload of length 0.
EmptyPayload == rcvStage = "payload" /\ unLength = 0

\* C36: EncodeMessage of the empty Message is the 4 bytes 00 00 00 00; and
\* once RecvMessage has read a header that declares payload length 0, with or
\* without a timeout, it makes no select() and no recv() call, takes no byte
\* off the stream beyond the 4 of the header, and returns the empty Message.
C36_EmptyMessageFourBytes ==
    /\ EncodeMessage(EmptyMessage) = <<0, 0, 0, 0>>
    /\ EmptyPayload =>
          /\ rcvPc \in {"top", "idle"}
          /\ Len(unHeader) = k_unHeaderSize
          /\ rcvBuffer = <<>> /\ taken = <<>>
          /\ rcvPc = "idle" =>
                rcvResults[Len(rcvResults)] = [err |-> "", msg |-> EmptyMessage]

\* Two RecvMessage calls, the second with a timeout, have each returned the
\* empty Message for a header 00 00 00 00.
C36_Witness ==
    /\ Len(rcvResults) = 2
    /\ \A i \in 1..2 : rcvResults[i] = [err |-> "", msg |-> EmptyMessage]
    /\ EmptyPayload /\ rcvPc = "idle" /\ unTimeoutMs = 1000
    /\ unHeader = <<0, 0, 0, 0>>
    /\ sndCalls # <<>> /\ sndCalls[1] = EmptyMessage

\* C37: in the entry loop of DecodeMessage and of decode_message the scan
\* offset is never beyond the end of the buffer, and the iteration that is
\* about to run either raises an error or ends with a larger offset, itself
\* not beyond the end of the buffer: the loop runs at most as many times as
\* the buffer has bytes.
C37_DecodeTerminates ==
    pc = "scan" =>
        /\ unOffset <= Len(vecMessage)
        /\ LoopContinues(unOffset, unPayloadLen) =>
              LET r == DecodeEntry(vecMessage, unOffset, msgDecoded, unReadEnd)
              IN  /\ r.err # "" \/ r.off > unOffset
                  /\ r.off <= Len(vecMessage)

\* The loop of decode_message has passed one entry of a buffer longer than
\* its header declares, and its next iteration passes another.
C37_Witness ==
    /\ pc = "scan" /\ LoopContinues(unOffset, unPayloadLen)
    /\ unOffset > k_unHeaderSize /\ msgDecoded # EmptyMessage
    /\ IsOversized(vecMessage, unPayloadLen)
    /\ DecodeEntry(vecMessage, unOffset, msgDecoded, unReadEnd).err = ""

\* The decode of the buffer has ended by returning the Message encoded.
LongSame == longPc = "returned" /\ longSeen.scan.msg = LongMessage(longKey)

C12_AcceptCancelled ==
    [][(accPc = "check" /\ osShutdown["lst"] /\ accPc' = "thrown")
          => accResult' = "operation_canceled"]_vars

\* C13 as stated: when ::shutdown() has been called on the Socket while its
\* RecvAll is inside recv() or inside the readiness wait, a RecvAll that
\* fails fails with operation_canceled.
C13_ShutdownCancelsRecv ==
    [][(osShutdown["rcv"] /\ rcvPc \in {"recv", "select", "check"}
            /\ rcvPc' = "failed")
        => LastOf(rcvResults').err = "operation_canceled"]_vars

C15_CancelledBeforeIO ==
    /\ bShutAtCall["snd"]
           => /\ sndPc \in {"top", "failed"} /\ wire = <<>>
              /\ sndPc = "failed" => LastOf(sndResults) = "operation_canceled"
    /\ bShutAtCall["rcv"]
           => /\ rcvPc \in {"top", "failed"} /\ taken = <<>>
              /\ rcvPc = "failed" => LastOf(rcvResults).err = "operation_canceled"

\* C16: in SpecTimed, while the peer has sent nothing, a RecvMessage with
\* timeout T > 0 has not returned a Message; if it has ended, it ended with
\* timed_out and its wait in select() had lasted at least T; and a call in
\* flight ends unless the peer starts to send.
C16_SilentPeerTimesOut ==
    /\ [](sndCalls = <<>> => \A i \in 1..Len(rcvResults) : rcvResults[i].err # "")
    /\ []((sndCalls = <<>> /\ rcvPc = "failed")
            => /\ LastOf(rcvResults).err = "timed_out"
               /\ unWaited * TickMs >= unTimeoutMs)
    /\ (sndCalls = <<>> /\ InFlight("rcv")) ~> (rcvPc = "failed" \/ sndCalls # <<>>)

\* A RecvMessage against a silent peer has ended with timed_out.
C16_Witness ==
    /\ sndCalls = <<>> /\ rcvPc = "failed"
    /\ LastOf(rcvResults).err = "timed_out"
    /\ unTimeoutMs = 1500 /\ unWaited * TickMs >= unTimeoutMs

\* C17: in SpecTimed every select() of RecvAll starts with the whole timeout,
\* whatever the earlier waits of the call have used, and timed_out is raised
\* only when nothing is readable and that one wait has lasted at least T.
C17_FreshWaitPerChunk ==
    /\ [][(rcvPc = "top" /\ rcvPc' = "select") => unWaited' = 0]_vars
    /\ [][(rcvPc = "select" /\ rcvPc' = "failed" /\ LastOf(rcvResults').err = "timed_out")
            => (stream = <<>> /\ unSilent * TickMs >= unTimeoutMs)]_vars
    /\ []((rcvPc = "failed" /\ LastOf(rcvResults).err = "timed_out")
            => unSilent * TickMs >= unTimeoutMs)

\* A RecvAll of several payload bytes has all its bytes although its waits
\* add up to more than T.
C17_Witness ==
    /\ rcvPc = "top" /\ rcvStage = "payload"
    /\ unLength > 1 /\ Len(rcvBuffer) = unLength
    /\ unElapsed * TickMs > unTimeoutMs

\* C18: the bytes the send() calls of SendAll have accepted are, in order,
\* the first unTotalSent bytes of the buffer; SendAll has returned true
\* only with the whole buffer accepted; a send() that returns no byte
\* count ends the call with an error, and the call makes no step after it.
C18_SendAllExactlyOnce ==
    /\ unTotalSent <= Len(vecSend)
    /\ wire = SubSeq(vecSend, 1, unTotalSent)
    /\ (sndPc = "idle" /\ sndResults # <<>>)
           => (LastOf(sndResults) = "ok" /\ wire = vecSend)
    /\ \A k \in 1..Len(sndResults) :
           sndResults[k] # "ok" => (k = Len(sndResults) /\ sndPc = "failed")

\* SendAll has returned true for a buffer that the connection could not
\* take in one piece.
C18_Witness ==
    /\ sndPc = "idle"
    /\ sndResults # <<>> /\ LastOf(sndResults) = "ok"
    /\ Len(vecSend) > MaxInFlight
    /\ wire = vecSend

\* C19: the bytes the recv() calls of RecvAll have taken off the stream
\* are, in order, the bytes stored in the buffer from offset 0; they are
\* never more than the unLength bytes asked for; RecvAll has returned true
\* only with exactly unLength bytes stored; a recv() that returns 0 or an
\* error ends the call with an error.
C19_RecvAllExact ==
    /\ rcvBuffer = taken
    /\ Len(taken) <= unLength
    /\ rcvStage = "payload" => Len(unHeader) = k_unHeaderSize
    /\ (rcvPc = "idle" /\ rcvResults # <<>>) => Len(rcvBuffer) = unLength
    /\ \A k \in 1..Len(rcvResults) :
           rcvResults[k].err \in TransportErrors
               => (k = Len(rcvResults) /\ rcvPc = "failed")

\* RecvAll has returned true for a payload that the connection could not
\* deliver in one piece.
C19_Witness ==
    /\ rcvPc = "idle"
    /\ rcvResults # <<>> /\ LastOf(rcvResults).err = ""
    /\ rcvStage = "payload"
    /\ Len(rcvBuffer) > MaxInFlight
    /\ rcvBuffer = taken

\* C20 as stated: a RecvMessage whose read of the header fails reports
\* "Header reception failed", and one whose read of the payload fails
\* reports "Payload reception failed".
C20_ReadFailureReported ==
    rcvPc = "failed"
        => LastOf(rcvResults).err =
               (IF rcvStage = "header" THEN "Header reception failed"
                ELSE "Payload reception failed")

====
